---- MODULE Spec2Model ----
(***************************************************************************)
(* A model of qvd4js: the QVD symbol, the reader pipeline (QvdFileReader)  *)
(* and the writer pipeline (QvdFileWriter) of src/index.js.                *)
(*                                                                         *)
(* Representation of JavaScript values.                                    *)
(*   null, undefined   records with only a type field                      *)
(*   string            [t |-> "string", s |-> sequence of code points]     *)
(*   number            [t |-> "number", k |-> "fin", neg, hi, lo, half]    *)
(*                     the value (-1)^neg * (hi * 65536 + lo + half / 2);  *)
(*                     TLC's integers are 32 bits wide, so a number that   *)
(*                     may leave the int32 range is kept in two limbs.     *)
(*                     Zero is always neg = FALSE: the code never tells    *)
(*                     -0 from 0 (===, Set, toString, truthiness agree).   *)
(*                     [t |-> "number", k |-> "NaN"] is NaN.               *)
(* Numbers of the file layout (offsets, widths, sizes) are small; they are *)
(* [k |-> "int", v |-> i], [k |-> "NaN"] or [k |-> "-Infinity"]; a         *)
(* quotient that is no whole number is [k |-> "ratio", num, den].           *)
(***************************************************************************)
EXTENDS Integers, Sequences, FiniteSets, TLC

(***************************************************************************)
(* Generic sequence helpers (Array.prototype methods used by the code).    *)
(***************************************************************************)
Min(a, b) == IF a < b THEN a ELSE b

Max(a, b) == IF a > b THEN a ELSE b

\* Array.prototype.reverse
Reverse(s) == [i \in 1..Len(s) |-> s[Len(s) + 1 - i]]

\* Buffer.subarray(from, to) / Array.prototype.slice(from, to) with 0-based,
\* non-negative bounds: clipped to the length, empty when to <= from.
Slice(s, from, to) ==
  LET f == Min(from, Len(s))
      e == Min(to, Len(s))
  IN  IF e <= f THEN <<>> ELSE [i \in 1..(e - f) |-> s[f + i]]

RECURSIVE Concat(_)
\* Buffer.concat(list) / Array.prototype.join('')
Concat(ss) == IF ss = <<>> THEN <<>> ELSE Head(ss) \o Concat(Tail(ss))

RECURSIVE SumSeq(_)
SumSeq(s) == IF s = <<>> THEN 0 ELSE Head(s) + SumSeq(Tail(s))

RECURSIVE Pow2(_)
\* Math.pow(2, n)
Pow2(n) == IF n = 0 THEN 1 ELSE 2 * Pow2(n - 1)

\* Array.prototype.indexOf: 0-based index of the first element equal to x, -1 if none
IndexOf(s, x) ==
  IF \E i \in 1..Len(s) : s[i] = x
  THEN (CHOOSE i \in 1..Len(s) : s[i] = x /\ \A j \in 1..(i - 1) : s[j] # x) - 1
  ELSE -1

(***************************************************************************)
(* JavaScript values.                                                      *)
(***************************************************************************)
Null == [t |-> "null"]

Undefined == [t |-> "undefined"]

Str(s) == [t |-> "string", s |-> s]

NaN == [t |-> "number", k |-> "NaN"]

Num(neg, hi, lo, half) ==
  [t |-> "number", k |-> "fin",
   neg |-> neg /\ (hi # 0 \/ lo # 0 \/ half # 0), hi |-> hi, lo |-> lo, half |-> half]

\* The number with the (int32) integer value v
IntNum(v) ==
  IF v >= 0 THEN Num(FALSE, v \div 65536, v % 65536, 0)
  ELSE IF v = -2147483647 - 1 THEN Num(TRUE, 32768, 0, 0)
  ELSE Num(TRUE, (-v) \div 65536, (-v) % 65536, 0)

IsString(x) == x.t = "string"

IsNumber(x) == x.t = "number"

IsZero(x) == x.k = "fin" /\ x.hi = 0 /\ x.lo = 0 /\ x.half = 0

\* ToBoolean(x): null, undefined, 0, NaN and '' are falsy
Truthy(x) ==
  CASE x.t = "null" -> FALSE
    [] x.t = "undefined" -> FALSE
    [] x.t = "string" -> x.s # <<>>
    [] x.t = "number" -> x.k # "NaN" /\ ~IsZero(x)

\* null != x (loose inequality): false for null and undefined only
NotNullish(x) == x.t \notin {"null", "undefined"}

\* Number.isInteger(x) for a number x
NumberIsInteger(x) == x.k = "fin" /\ x.half = 0

\* The int32 range test of Buffer.writeInt32LE
InInt32Range(x) ==
  /\ x.k = "fin"
  /\ x.half = 0
  /\ \/ x.hi < 32768
     \/ x.neg /\ x.hi = 32768 /\ x.lo = 0

RECURSIVE MagDigits(_, _)
\* Decimal digits (code points) of the natural number hi * 65536 + lo
MagDigits(hi, lo) ==
  IF hi = 0 /\ lo < 10 THEN <<48 + lo>>
  ELSE LET t == (hi % 10) * 65536 + lo
       IN  MagDigits(hi \div 10, t \div 10) \o <<48 + (t % 10)>>

\* Number.prototype.toString() (radix 10), below 1e21
NumberToString(x) ==
  IF x.k = "NaN" THEN <<78, 97, 78>>
  ELSE (IF x.neg THEN <<45>> ELSE <<>>)
       \o MagDigits(x.hi, x.lo)
       \o (IF x.half = 1 THEN <<46, 53>> ELSE <<>>)

IsDigit(c) == c >= 48 /\ c <= 57

IsSpace(c) == c \in {9, 10, 11, 12, 13, 32}

RECURSIVE TrimLeft(_)
TrimLeft(s) == IF s # <<>> /\ IsSpace(Head(s)) THEN TrimLeft(Tail(s)) ELSE s

\* String.prototype.trim as applied by the Number(string) conversion
Trim(s) == Reverse(TrimLeft(Reverse(TrimLeft(s))))

RECURSIVE DigitsToLimbs(_, _, _)
\* The natural number written by the decimal digits ds, accumulated in limbs
DigitsToLimbs(ds, hi, lo) ==
  IF ds = <<>> THEN <<hi, lo>>
  ELSE LET t == lo * 10 + (Head(ds) - 48)
       IN  DigitsToLimbs(Tail(ds), hi * 10 + (t \div 65536), t % 65536)

RECURSIVE StripTrailingZeros(_)
StripTrailingZeros(ds) ==
  IF ds # <<>> /\ ds[Len(ds)] = 48 THEN StripTrailingZeros(SubSeq(ds, 1, Len(ds) - 1)) ELSE ds

\* Number(s) for a string s (sequence of code points): whitespace is trimmed,
\* the empty string is 0, an optionally signed decimal literal is its value and
\* everything else is NaN.  Exponents, radix prefixes and "Infinity" are not
\* modelled (no modelled text contains the letters e, x, o, b, I), and a
\* fraction must be a whole number of halves.
StringToNumber(s) ==
  LET body   == Trim(s)
      signed == body # <<>> /\ Head(body) \in {43, 45}
      neg    == body # <<>> /\ Head(body) = 45
      lit    == IF signed THEN Tail(body) ELSE body
      dot    == IndexOf(lit, 46)
      whole  == IF dot < 0 THEN lit ELSE SubSeq(lit, 1, dot)
      frac   == IF dot < 0 THEN <<>> ELSE SubSeq(lit, dot + 2, Len(lit))
      fr     == StripTrailingZeros(frac)
      limbs  == DigitsToLimbs(whole, 0, 0)
  IN  IF body = <<>> THEN Num(FALSE, 0, 0, 0)
      ELSE IF \/ whole \o frac = <<>>
              \/ \E i \in 1..Len(whole) : ~IsDigit(whole[i])
              \/ \E i \in 1..Len(frac) : ~IsDigit(frac[i])
           THEN NaN
           ELSE CASE fr = <<>>   -> Num(neg, limbs[1], limbs[2], 0)
                  [] fr = <<53>> -> Num(neg, limbs[1], limbs[2], 1)

(***************************************************************************)
(* Buffer encodings.                                                       *)
(***************************************************************************)
\* Buffer.writeInt32LE(x) for x in the int32 range: two's complement, little endian
WriteInt32LE(x) ==
  LET hi == IF ~x.neg THEN x.hi
            ELSE IF x.lo = 0 THEN 65536 - x.hi ELSE 65535 - x.hi
      lo == IF ~x.neg \/ x.lo = 0 THEN x.lo ELSE 65536 - x.lo
  IN  <<lo % 256, lo \div 256, (hi % 65536) % 256, (hi % 65536) \div 256>>

\* Buffer.readIntLE(0, byteLength) on a buffer of byteLength = Len(bytes) in 1..4
\* bytes: the little-endian two's complement value of that width
ReadIntLE(bytes) ==
  LET n    == Len(bytes)
      negv == bytes[n] >= 128
      pad  == IF negv THEN 255 ELSE 0
      b    == [i \in 1..4 |-> IF i <= n THEN bytes[i] ELSE pad]
      lo   == b[1] + 256 * b[2]
      hi   == b[3] + 256 * b[4]
  IN  IF ~negv THEN Num(FALSE, hi, lo, 0)
      ELSE IF lo = 0 THEN Num(TRUE, 65536 - hi, 0, 0)
      ELSE Num(TRUE, 65535 - hi, 65536 - lo, 0)

RECURSIVE NatBits(_)
\* Binary digits of a natural number, most significant first, no leading zero
\* (Number.prototype.toString(2)); <<>> for 0 here
NatBits(n) == IF n = 0 THEN <<>> ELSE NatBits(n \div 2) \o <<n % 2>>

\* The w low bits of n, most significant first
FixedBits(n, w) == [i \in 1..w |-> (n \div Pow2(w - i)) % 2]

RECURSIVE BitsToNat(_)
\* The natural number written by the bits bs, most significant first
BitsToNat(bs) == IF bs = <<>> THEN 0 ELSE 2 * BitsToNat(SubSeq(bs, 1, Len(bs) - 1)) + bs[Len(bs)]

\* Buffer.writeDoubleLE(x) for a finite x of the model: IEEE-754 binary64
WriteDoubleLE(x) ==
  LET m    == NatBits(x.hi) \o FixedBits(x.lo, 16) \o <<x.half>>
      lead == IF \E i \in 1..Len(m) : m[i] = 1
              THEN CHOOSE i \in 1..Len(m) : m[i] = 1 /\ \A j \in 1..(i - 1) : m[j] = 0
              ELSE 0
      sig  == SubSeq(m, lead, Len(m))
      k    == Len(sig)
      mant == [i \in 1..52 |-> IF i <= k - 1 THEN sig[i + 1] ELSE 0]
      bits == <<IF x.neg THEN 1 ELSE 0>> \o FixedBits(k + 1021, 11) \o mant
  IN  IF lead = 0 THEN [i \in 1..8 |-> 0]
      ELSE [i \in 1..8 |-> BitsToNat(SubSeq(bits, 8 * (8 - i) + 1, 8 * (8 - i) + 8))]

\* Buffer.readDoubleLE(0) on 8 bytes.  A bit pattern that is not a whole number
\* of halves below 2^36 (or is NaN, infinite, subnormal) is kept as its bytes.
ReadDoubleLE(bytes) ==
  LET bits == Concat([i \in 1..8 |-> FixedBits(bytes[9 - i], 8)])
      e    == BitsToNat(SubSeq(bits, 2, 12))
      mant == SubSeq(bits, 13, 64)
      k    == e - 1021
      sig  == <<1>> \o SubSeq(mant, 1, k - 1)
      m    == [i \in 1..37 |-> IF i <= 37 - k THEN 0 ELSE sig[i - (37 - k)]]
  IN  IF \A i \in 2..64 : bits[i] = 0 THEN Num(FALSE, 0, 0, 0)
      ELSE IF k >= 1 /\ k <= 37 /\ \A i \in k..52 : mant[i] = 0
           THEN Num(bits[1] = 1, BitsToNat(SubSeq(m, 1, 20)), BitsToNat(SubSeq(m, 21, 36)), m[37])
           ELSE [t |-> "number", k |-> "raw", bytes |-> bytes]

\* Buffer.from(s, 'utf-8') for a string s of code points of the basic plane
RECURSIVE Utf8Encode(_)
Utf8Encode(s) ==
  IF s = <<>> THEN <<>>
  ELSE LET c == Head(s)
       IN  (CASE c < 128  -> <<c>>
              [] c >= 128 /\ c < 2048 -> <<192 + (c \div 64), 128 + (c % 64)>>
              [] c >= 2048 -> <<224 + (c \div 4096), 128 + ((c \div 64) % 64), 128 + (c % 64)>>)
           \o Utf8Encode(Tail(s))

IsCont(bs, i) == i <= Len(bs) /\ bs[i] >= 128 /\ bs[i] < 192

\* Buffer.toString('utf-8'): a byte that starts no well-formed sequence of one,
\* two or three bytes decodes to U+FFFD
RECURSIVE Utf8Decode(_)
Utf8Decode(bs) ==
  IF bs = <<>> THEN <<>>
  ELSE LET b == Head(bs)
       IN  CASE b < 128 -> <<b>> \o Utf8Decode(Tail(bs))
             [] b >= 194 /\ b < 224 /\ IsCont(bs, 2) ->
                  <<(b - 192) * 64 + (bs[2] - 128)>> \o Utf8Decode(SubSeq(bs, 3, Len(bs)))
             [] b >= 224 /\ b < 240 /\ IsCont(bs, 2) /\ IsCont(bs, 3)
                  /\ (b - 224) * 4096 + (bs[2] - 128) * 64 >= 2048 ->
                  <<(b - 224) * 4096 + (bs[2] - 128) * 64 + (bs[3] - 128)>>
                    \o Utf8Decode(SubSeq(bs, 4, Len(bs)))
             [] OTHER -> <<65533>> \o Utf8Decode(Tail(bs))

(***************************************************************************)
(* QvdSymbol: three nullable slots.                                        *)
(***************************************************************************)
QvdSymbol(intValue, doubleValue, stringValue) ==
  [intValue |-> intValue, doubleValue |-> doubleValue, stringValue |-> stringValue]

fromIntValue(i) == QvdSymbol(i, Null, Null)

fromDoubleValue(d) == QvdSymbol(Null, d, Null)

fromStringValue(s) == QvdSymbol(Null, Null, s)

fromDualIntValue(i, s) == QvdSymbol(i, Null, s)

fromDualDoubleValue(d, s) == QvdSymbol(Null, d, s)

\* A variant that tests the slots for truthiness, as toByteRepresentation does
toPrimaryValueTruthy(sym) ==
  IF Truthy(sym.stringValue) THEN sym.stringValue
  ELSE IF Truthy(sym.intValue) THEN sym.intValue
  ELSE IF Truthy(sym.doubleValue) THEN sym.doubleValue
  ELSE Null

\* QvdSymbol.toPrimaryValue: the string, else the integer, else the double
toPrimaryValue(sym) ==
  IF NotNullish(sym.stringValue) THEN sym.stringValue
  ELSE IF NotNullish(sym.intValue) THEN sym.intValue
  ELSE IF NotNullish(sym.doubleValue) THEN sym.doubleValue
  ELSE Null

\* QvdSymbol.equals: strict equality of the three slots
equals(a, b) ==
  /\ a.intValue = b.intValue /\ a.intValue # NaN
  /\ a.doubleValue = b.doubleValue /\ a.doubleValue # NaN
  /\ a.stringValue = b.stringValue

Ok(v) == [ok |-> TRUE, v |-> v]

Throw(e) == [ok |-> FALSE, err |-> e]

\* The string slot followed by the terminating zero byte
StringBuffer(sym) == Utf8Encode(sym.stringValue.s) \o <<0>>

\* The errors of toByteRepresentation
NoValue == "The symbol does not contain any value."

OutOfRange == "ERR_OUT_OF_RANGE"

\* A variant that emits no bytes for a symbol none of whose slots is truthy
toByteRepresentationLenient(sym) ==
  IF Truthy(sym.intValue) /\ Truthy(sym.stringValue)
  THEN IF InInt32Range(sym.intValue)
       THEN Ok(<<5>> \o WriteInt32LE(sym.intValue) \o StringBuffer(sym))
       ELSE Throw(OutOfRange)
  ELSE IF Truthy(sym.doubleValue) /\ Truthy(sym.stringValue)
  THEN Ok(<<6>> \o WriteDoubleLE(sym.doubleValue) \o StringBuffer(sym))
  ELSE IF Truthy(sym.intValue)
  THEN IF InInt32Range(sym.intValue)
       THEN Ok(<<1>> \o WriteInt32LE(sym.intValue))
       ELSE Throw(OutOfRange)
  ELSE IF Truthy(sym.doubleValue)
  THEN Ok(<<2>> \o WriteDoubleLE(sym.doubleValue))
  ELSE IF Truthy(sym.stringValue)
  THEN Ok(<<4>> \o StringBuffer(sym))
  ELSE Ok(<<>>)

\* QvdSymbol.toByteRepresentation: the branches test the slots for truthiness;
\* writeInt32LE throws on a value outside the int32 range
toByteRepresentation(sym) ==
  IF Truthy(sym.intValue) /\ Truthy(sym.stringValue)
  THEN IF InInt32Range(sym.intValue)
       THEN Ok(<<5>> \o WriteInt32LE(sym.intValue) \o StringBuffer(sym))
       ELSE Throw(OutOfRange)
  ELSE IF Truthy(sym.doubleValue) /\ Truthy(sym.stringValue)
  THEN Ok(<<6>> \o WriteDoubleLE(sym.doubleValue) \o StringBuffer(sym))
  ELSE IF Truthy(sym.intValue)
  THEN IF InInt32Range(sym.intValue)
       THEN Ok(<<1>> \o WriteInt32LE(sym.intValue))
       ELSE Throw(OutOfRange)
  ELSE IF Truthy(sym.doubleValue)
  THEN Ok(<<2>> \o WriteDoubleLE(sym.doubleValue))
  ELSE IF Truthy(sym.stringValue)
  THEN Ok(<<4>> \o StringBuffer(sym))
  ELSE Throw(NoValue)

(***************************************************************************)
(* Layout numbers and their decimal text in the XML header.                *)
(***************************************************************************)
I(v) == [k |-> "int", v |-> v]

LNaN == [k |-> "NaN"]

NegInfinity == [k |-> "-Infinity"]

\* a + b on layout numbers
LAdd(a, b) ==
  IF a.k = "int" /\ b.k = "int" THEN I(a.v + b.v)
  ELSE IF a.k = "NaN" \/ b.k = "NaN" THEN LNaN
  ELSE NegInfinity

\* a / b for naturals a and b > 0
LDiv(a, b) == IF a % b = 0 THEN I(a \div b) ELSE [k |-> "ratio", num |-> a, den |-> b]

RECURSIVE FractionDigits(_, _, _)
\* The first n decimal digits of rem / den, 0 <= rem < den
FractionDigits(rem, den, n) ==
  IF n = 0 THEN <<>>
  ELSE <<48 + ((rem * 10) \div den)>> \o FractionDigits((rem * 10) % den, den, n - 1)

\* The text xml2js writes for a number: String(n).  Of a quotient that is no
\* whole number the whole part, the point and the first four decimals are kept.
NumberText(n) ==
  CASE n.k = "NaN" -> <<78, 97, 78>>
    [] n.k = "-Infinity" -> <<45, 73, 110, 102, 105, 110, 105, 116, 121>>
    [] n.k \in {"int", "ratio"} ->
         (IF n.k = "int" /\ n.v < 0 THEN <<45>> ELSE <<>>)
           \o MagDigits(0, IF n.k = "ratio" THEN n.num \div n.den
                           ELSE IF n.v < 0 THEN -n.v ELSE n.v)
           \o (IF n.k = "ratio"
               THEN <<46>> \o FractionDigits(n.num % n.den, n.den, 4)
               ELSE <<>>)

RECURSIVE buildObject(_)
\* xml.Builder.buildObject: every number of the header object becomes its
\* decimal text, undefined becomes an empty element
buildObject(element) ==
  [k \in DOMAIN element |->
     IF k = "FieldName" THEN element[k]
     ELSE IF k = "Fields" THEN [c \in DOMAIN element[k] |-> buildObject(element[k][c])]
     ELSE IF element[k] = Undefined THEN <<>>
     ELSE NumberText(element[k])]

RECURSIVE LeadingDigits(_)
LeadingDigits(s) ==
  IF s # <<>> /\ IsDigit(Head(s)) THEN <<Head(s)>> \o LeadingDigits(Tail(s)) ELSE <<>>

\* parseInt(text, 10): optional sign, then the longest run of digits; NaN if none
ParseInt(text) ==
  LET body   == TrimLeft(text)
      signed == body # <<>> /\ Head(body) \in {43, 45}
      neg    == body # <<>> /\ Head(body) = 45
      ds     == LeadingDigits(IF signed THEN Tail(body) ELSE body)
      limbs  == DigitsToLimbs(ds, 0, 0)
      mag    == limbs[1] * 65536 + limbs[2]
  IN  IF ds = <<>> THEN LNaN ELSE I(IF neg THEN -mag ELSE mag)

(***************************************************************************)
(* QvdFileWriter.                                                          *)
(***************************************************************************)
\* QvdFileWriter._convertRawToSymbol
ConvertRawToSymbol(raw) ==
  IF IsNumber(raw) /\ NumberIsInteger(raw)
  THEN fromDualIntValue(raw, Str(NumberToString(raw)))
  ELSE IF IsNumber(raw)
  THEN fromDualDoubleValue(raw, Str(NumberToString(raw)))
  ELSE fromStringValue(raw)

RECURSIVE Unique(_)
\* Array.from(new Set(values)): first occurrences, in order
Unique(values) ==
  IF values = <<>> THEN <<>>
  ELSE LET rest == Unique(SubSeq(values, 1, Len(values) - 1))
           x    == values[Len(values)]
       IN  IF \E i \in 1..Len(rest) : rest[i] = x THEN rest ELSE rest \o <<x>>

\* row[this._df.columns.indexOf(column)]
CellOf(df, row, column) ==
  LET i == IndexOf(df.columns, column) + 1
  IN  IF i <= Len(row) THEN row[i] ELSE Undefined

\* The values of a column, one per row
ColumnValues(df, column) == [r \in 1..Len(df.data) |-> CellOf(df, df.data[r], column)]

RECURSIVE ConcatBytes(_)
\* Buffer.concat(symbols.map(toByteRepresentation)): throws when a symbol throws
ConcatBytes(symbols) ==
  IF symbols = <<>> THEN Ok(<<>>)
  ELSE LET Join(b, rest) == IF rest.ok THEN Ok(b.v \o rest.v) ELSE rest
           Step(b) == IF ~b.ok THEN b ELSE Join(b, ConcatBytes(Tail(symbols)))
       IN  Step(toByteRepresentation(Head(symbols)))

RECURSIVE SymbolTableLoopOffsetAtEnd(_, _, _)
\* A variant that takes the length of the symbol buffer after the column was
\* appended as the column's offset
SymbolTableLoopOffsetAtEnd(df, c, acc) ==
  IF c > Len(df.columns) THEN acc
  ELSE LET Symbols(uniqueValues) ==
             [i \in 1..Len(uniqueValues) |-> ConvertRawToSymbol(uniqueValues[i])]
           Appended(symbols, current) ==
             IF ~current.ok THEN [acc EXCEPT !.ok = FALSE, !.err = current.err]
             ELSE SymbolTableLoopOffsetAtEnd(df, c + 1,
                    [acc EXCEPT
                       !.symbolBuffer = @ \o current.v,
                       !.symbolTableMetadata =
                          Append(@, <<Len(acc.symbolBuffer) + Len(current.v), Len(current.v)>>),
                       !.symbolTable = Append(@, symbols)])
           Encoded(symbols) == Appended(symbols, ConcatBytes(symbols))
       IN  Encoded(Symbols(Unique(ColumnValues(df, df.columns[c]))))

RECURSIVE SymbolTableLoop(_, _, _)
\* The forEach over the columns of _buildSymbolTable, from column position c on;
\* acc holds _symbolTable, _symbolTableMetadata and _symbolBuffer
SymbolTableLoop(df, c, acc) ==
  IF c > Len(df.columns) THEN acc
  ELSE LET Symbols(uniqueValues) ==
             [i \in 1..Len(uniqueValues) |-> ConvertRawToSymbol(uniqueValues[i])]
           Appended(symbols, current) ==
             IF ~current.ok THEN [acc EXCEPT !.ok = FALSE, !.err = current.err]
             ELSE SymbolTableLoop(df, c + 1,
                    [acc EXCEPT
                       !.symbolBuffer = @ \o current.v,
                       !.symbolTableMetadata = Append(@, <<Len(acc.symbolBuffer), Len(current.v)>>),
                       !.symbolTable = Append(@, symbols)])
           Encoded(symbols) == Appended(symbols, ConcatBytes(symbols))
       IN  Encoded(Symbols(Unique(ColumnValues(df, df.columns[c]))))

\* QvdFileWriter._buildSymbolTable
buildSymbolTable(df) ==
  SymbolTableLoop(df, 1,
    [ok |-> TRUE, err |-> "", symbolTable |-> <<>>, symbolTableMetadata |-> <<>>,
     symbolBuffer |-> <<>>])

\* Array.prototype.findIndex(s => s.equals(symbol)), 0-based, -1 if none
FindIndex(symbols, symbol) ==
  IF \E i \in 1..Len(symbols) : equals(symbols[i], symbol)
  THEN (CHOOSE i \in 1..Len(symbols) :
          equals(symbols[i], symbol) /\ \A j \in 1..(i - 1) : ~equals(symbols[j], symbol)) - 1
  ELSE -1

\* QvdFileWriter._convertInt32ToBits(value, width) for value >= 0: the width low
\* bits of value, most significant first
ConvertInt32ToBits(value, width) ==
  LET lsbFirst == Reverse(NatBits(value)) \o [i \in 1..width |-> 0]
  IN  Reverse(SubSeq(lsbFirst, 1, width))

RECURSIVE StripLeadingZeros(_)
StripLeadingZeros(bits) ==
  IF bits # <<>> /\ Head(bits) = 0 THEN StripLeadingZeros(Tail(bits)) ELSE bits

\* A variant without the || '0': the index 0 gives the empty bit string
BitStringBare(index) == StripLeadingZeros(ConvertInt32ToBits(index, 32))

\* bits.join('').replace(/^0+/, '') || '0'
BitString(index) ==
  LET s == StripLeadingZeros(ConvertInt32ToBits(index, 32))
  IN  IF s = <<>> THEN <<0>> ELSE s

\* The symbol index the writer resolves for the cell of a row in a column
ResolveIndex(df, symbolTable, row, column) ==
  FindIndex(symbolTable[IndexOf(df.columns, column) + 1],
            ConvertRawToSymbol(CellOf(df, row, column)))

\* The first forEach of _buildIndexTable: per row, per column, the bit string of
\* the resolved symbol index
IndexRows(df, symbolTable) ==
  [r \in 1..Len(df.data) |->
     [c \in 1..Len(df.columns) |->
        BitString(ResolveIndex(df, symbolTable, df.data[r], df.columns[c]))]]

\* String.prototype.padStart(width, '0') on a bit string
PadStart(bits, width) ==
  IF Len(bits) >= width THEN bits ELSE [i \in 1..(width - Len(bits)) |-> 0] \o bits

RECURSIVE MaxOf(_)
MaxOf(s) == IF Len(s) = 1 THEN s[1] ELSE Max(Head(s), MaxOf(Tail(s)))

\* Math.max(...lengths): -Infinity without arguments
MathMax(lengths) == IF lengths = <<>> THEN NegInfinity ELSE I(MaxOf(lengths))

RECURSIVE LSum(_)
\* metadata.reduce((sum, m) => sum + m[1], 0)
LSum(metadata) == IF metadata = <<>> THEN I(0) ELSE LAdd(metadata[1][2], LSum(Tail(metadata)))

RECURSIVE LayoutLoop(_, _, _)
\* The second forEach of _buildIndexTable, from column position c on: acc holds
\* _indexTable (bit strings) and _indexTableMetadata.  Every access goes through
\* columns.indexOf(column).
LayoutLoop(df, c, acc) ==
  IF c > Len(df.columns) THEN acc
  ELSE LET Padded(ci, bitOffset, bitWidth) ==
             LayoutLoop(df, c + 1,
               [indexTableMetadata |->
                  Append(acc.indexTableMetadata, <<bitOffset, bitWidth, I(0)>>),
                indexTable |->
                  [r \in 1..Len(acc.indexTable) |->
                     [acc.indexTable[r] EXCEPT ![ci] = PadStart(@, bitWidth.v)]]])
           Measured(ci) ==
             Padded(ci, LSum(Slice(acc.indexTableMetadata, 0, ci - 1)),
                    MathMax([r \in 1..Len(acc.indexTable) |-> Len(acc.indexTable[r][ci])]))
       IN  Measured(IndexOf(df.columns, df.columns[c]) + 1)

\* A variant that leaves the bytes of a row in the order of the bit string
RowBytesInBitOrder(indices) ==
  LET bits         == Concat(indices)
      paddingWidth == (8 - (Len(bits) % 8)) % 8
      paddedBits   == [i \in 1..paddingWidth |-> 0] \o bits
  IN  [i \in 1..(Len(paddedBits) \div 8) |->
         BitsToNat(SubSeq(paddedBits, 8 * (i - 1) + 1, 8 * i))]

\* The bytes of one row: the bit strings joined from the last column down to the
\* first, padded in front to whole bytes, cut into bytes, the bytes reversed
RowBytes(indices) ==
  LET bits         == Concat(indices)
      paddingWidth == (8 - (Len(bits) % 8)) % 8
      paddedBits   == [i \in 1..paddingWidth |-> 0] \o bits
      bytes        == [i \in 1..(Len(paddedBits) \div 8) |->
                         BitsToNat(SubSeq(paddedBits, 8 * (i - 1) + 1, 8 * i))]
  IN  Reverse(bytes)

\* A variant in which indices.reverse() reverses the rows of the data frame too
buildIndexTableOnRows(df, symbolTable) ==
  LET Built(laid, reversed, buffer) ==
        [indexTable |-> reversed,
         indexTableMetadata |-> laid.indexTableMetadata,
         indexBuffer |-> buffer,
         recordByteSize |-> IF Len(reversed) = 0 THEN LNaN
                            ELSE LDiv(Len(buffer), Len(reversed)),
         data |-> [r \in 1..Len(df.data) |-> Reverse(df.data[r])]]
      Written(laid, reversed) ==
        Built(laid, reversed, Concat([r \in 1..Len(reversed) |-> RowBytes(reversed[r])]))
      Reversed(laid) ==
        Written(laid, [r \in 1..Len(laid.indexTable) |-> Reverse(laid.indexTable[r])])
  IN  Reversed(LayoutLoop(df, 1, [indexTableMetadata |-> <<>>,
                                  indexTable |-> IndexRows(df, symbolTable)]))

\* QvdFileWriter._buildIndexTable.  data is the rows of the data frame as the
\* call leaves them: the arrays it pads and reverses in place are those of
\* _indexTable, which columns.map built, never the rows themselves.
buildIndexTable(df, symbolTable) ==
  LET Built(laid, reversed, buffer) ==
        [indexTable |-> reversed,
         indexTableMetadata |-> laid.indexTableMetadata,
         indexBuffer |-> buffer,
         recordByteSize |-> IF Len(reversed) = 0 THEN LNaN
                            ELSE LDiv(Len(buffer), Len(reversed)),
         data |-> df.data]
      Written(laid, reversed) ==
        Built(laid, reversed, Concat([r \in 1..Len(reversed) |-> RowBytes(reversed[r])]))
      Reversed(laid) ==
        Written(laid, [r \in 1..Len(laid.indexTable) |-> Reverse(laid.indexTable[r])])
  IN  Reversed(LayoutLoop(df, 1, [indexTableMetadata |-> <<>>,
                                  indexTable |-> IndexRows(df, symbolTable)]))

\* QvdFileWriter._buildHeader: the XML header, kept as the text of each element
\* the reader uses (every number is written as its decimal text)
buildHeader(df, symbolTable, symbolTableMetadata, indexTable, indexTableMetadata, indexBuffer, recordByteSize) ==
  LET last == symbolTableMetadata[Len(symbolTableMetadata)]
  IN  buildObject(
        [Fields |->
           [c \in 1..Len(df.columns) |->
              [FieldName   |-> df.columns[c],
               BitOffset   |-> indexTableMetadata[c][1],
               BitWidth    |-> indexTableMetadata[c][2],
               Bias        |-> indexTableMetadata[c][3],
               NoOfSymbols |-> I(Len(symbolTable[c])),
               Offset      |-> I(symbolTableMetadata[c][1]),
               Length      |-> I(symbolTableMetadata[c][2])]],
         NoOfRecords    |-> I(Len(indexTable)),
         RecordByteSize |-> recordByteSize,
         Offset         |-> I(last[1] + last[2]),
         Length         |-> I(Len(indexBuffer))])

\* Length in bytes of the header text with its final CR LF: the element texts
\* are counted, the markup around them is not
HeaderTextLength(header) ==
  Len(header.NoOfRecords) + Len(header.RecordByteSize) + Len(header.Offset)
    + Len(header.Length)
    + SumSeq([c \in 1..Len(header.Fields) |->
                Len(header.Fields[c].BitOffset) + Len(header.Fields[c].BitWidth)
                  + Len(header.Fields[c].Bias) + Len(header.Fields[c].NoOfSymbols)
                  + Len(header.Fields[c].Offset) + Len(header.Fields[c].Length)])
    + 2

\* The file QvdFileWriter._writeData writes: header text, a zero byte, the symbol
\* buffer, the index buffer
WrittenFile(header, symbolBuffer, indexBuffer) ==
  [exists    |-> TRUE,
   delimited |-> TRUE,
   header    |-> header,
   headerLen |-> HeaderTextLength(header) + 1,
   data      |-> symbolBuffer \o indexBuffer]

(***************************************************************************)
(* QvdFileReader.                                                          *)
(***************************************************************************)
\* xml2js.parseStringPromise(text, {explicitArray: false}): a single
\* QvdFieldHeader child is an object, several are an array
XmlParse(header) ==
  [QvdFieldHeader |-> IF Len(header.Fields) = 1
                      THEN [isArray |-> FALSE, v |-> header.Fields[1]]
                      ELSE [isArray |-> TRUE, v |-> header.Fields],
   NoOfRecords    |-> header.NoOfRecords,
   RecordByteSize |-> header.RecordByteSize,
   Offset         |-> header.Offset,
   Length         |-> header.Length]

\* if (!Array.isArray(fields)) fields = [fields]
FieldsOf(header) ==
  IF header.QvdFieldHeader.isArray THEN header.QvdFieldHeader.v
  ELSE <<header.QvdFieldHeader.v>>

\* The error of a header text that is no XML document: the parser's own error,
\* or the error thrown when the parser yields nothing
NotParsed == "The XML header could not be parsed."

\* buffer.indexOf('\r\n\0'): the delimiter ends the header; -1 when the buffer
\* holds no delimiter
HeaderDelimiterIndex(buffer) == IF buffer.delimited THEN buffer.headerLen - 3 ELSE -1

\* xml.parseStringPromise(headerBuffer.toString()) followed by the test of the
\* result: without a delimiter the header buffer is the first two bytes of the
\* file, which are no XML document, so the parser throws or yields nothing
ParsedHeader(buffer) ==
  IF HeaderDelimiterIndex(buffer) = -1
  THEN Throw(NotParsed)
  ELSE Ok(XmlParse(buffer.header))

\* A layout number is falsy when it is 0 or NaN
LTruthy(n) == n.k = "-Infinity" \/ (n.k = "int" /\ n.v # 0)

\* buf[pointer]: -1 stands for undefined (outside the buffer)
ByteAt(buf, pointer) ==
  IF pointer >= 0 /\ pointer < Len(buf) THEN buf[pointer + 1] ELSE -1

\* The position of the first zero byte at or after pointer, -1 if there is none
ZeroAt(buf, pointer) ==
  IF \E q \in pointer..(Len(buf) - 1) : q >= 0 /\ buf[q + 1] = 0
  THEN CHOOSE q \in pointer..(Len(buf) - 1) :
         q >= 0 /\ buf[q + 1] = 0 /\ \A j \in pointer..(q - 1) : j < 0 \/ buf[j + 1] # 0
  ELSE -1

UnknownDataType == "Unknown data type"

\* One symbol at pointer (the body of the for loop of _parseSymbolTable):
\* [st |-> "ok", symbol, next], or "throw", or "hang" when a string has no
\* terminating zero byte in the buffer
ParseSymbol(buf, pointer) ==
  LET typeByte == ByteAt(buf, pointer)
      p        == pointer + 1
      int4     == Slice(buf, p, p + 4)
      dbl8     == Slice(buf, p, p + 8)
      strFrom(q) ==
        LET z == ZeroAt(buf, q)
        IN  IF z < 0 THEN [st |-> "hang", err |-> ""]
            ELSE [st |-> "ok", s |-> Str(Utf8Decode(Slice(buf, q, z))), next |-> z + 1]
  IN  CASE typeByte = 1 ->
             IF Len(int4) = 0 THEN [st |-> "throw", err |-> "ERR_OUT_OF_RANGE"]
             ELSE [st |-> "ok", symbol |-> fromIntValue(ReadIntLE(int4)), next |-> p + 4]
        [] typeByte = 2 ->
             IF Len(dbl8) < 8 THEN [st |-> "throw", err |-> "ERR_OUT_OF_RANGE"]
             ELSE [st |-> "ok", symbol |-> fromDoubleValue(ReadDoubleLE(dbl8)), next |-> p + 8]
        [] typeByte = 4 ->
             LET str == strFrom(p)
             IN  IF str.st # "ok" THEN str
                 ELSE [st |-> "ok", symbol |-> fromStringValue(str.s), next |-> str.next]
        [] typeByte = 5 ->
             LET str == strFrom(p + 4)
             IN  IF Len(int4) = 0 THEN [st |-> "throw", err |-> "ERR_OUT_OF_RANGE"]
                 ELSE IF str.st # "ok" THEN str
                 ELSE [st |-> "ok", symbol |-> fromDualIntValue(ReadIntLE(int4), str.s),
                       next |-> str.next]
        [] typeByte = 6 ->
             LET str == strFrom(p + 8)
             IN  IF Len(dbl8) < 8 THEN [st |-> "throw", err |-> "ERR_OUT_OF_RANGE"]
                 ELSE IF str.st # "ok" THEN str
                 ELSE [st |-> "ok", symbol |-> fromDualDoubleValue(ReadDoubleLE(dbl8), str.s),
                       next |-> str.next]
        [] OTHER -> [st |-> "throw", err |-> UnknownDataType]

RECURSIVE ParseSymbols(_, _, _)
\* for (pointer = symbolsOffset; pointer < symbolsOffset + symbolsLength; pointer++)
ParseSymbols(buf, pointer, end) ==
  IF pointer >= end THEN [st |-> "ok", err |-> "", symbols |-> <<>>]
  ELSE LET Push(one, rest) ==
             [st |-> rest.st, err |-> rest.err, symbols |-> <<one.symbol>> \o rest.symbols]
           Step(one) ==
             IF one.st # "ok" THEN [st |-> one.st, err |-> one.err, symbols |-> <<>>]
             ELSE Push(one, ParseSymbols(buf, one.next, end))
       IN  Step(ParseSymbol(buf, pointer))

\* The symbols of one field; a NaN offset or length makes the loop condition false
FieldSymbols(buf, field) ==
  LET Loop(symbolsOffset, symbolsLength) ==
        IF symbolsOffset.k # "int" \/ symbolsLength.k # "int"
        THEN [st |-> "ok", err |-> "", symbols |-> <<>>]
        ELSE ParseSymbols(buf, symbolsOffset.v, symbolsOffset.v + symbolsLength.v)
  IN  Loop(ParseInt(field.Offset), ParseInt(field.Length))

\* A variant of the map that goes on after a failure in a field
MapFieldsPastFailures(buf, fields) ==
  [st |-> "ok", err |-> "",
   table |-> [c \in 1..Len(fields) |-> FieldSymbols(buf, fields[c]).symbols]]

RECURSIVE MapFields(_, _)
\* fields.map(field => symbols of the field): the first failure ends the map
MapFields(buf, fields) ==
  IF fields = <<>> THEN [st |-> "ok", err |-> "", table |-> <<>>]
  ELSE LET Push(one, rest) ==
             [st |-> rest.st, err |-> rest.err, table |-> <<one.symbols>> \o rest.table]
           Step(one) ==
             IF one.st # "ok" THEN [st |-> one.st, err |-> one.err, table |-> <<>>]
             ELSE Push(one, MapFields(buf, Tail(fields)))
       IN  Step(FieldSymbols(buf, Head(fields)))

\* The symbol region: buffer.subarray(symbolTableOffset, indexTableOffset)
SymbolBuffer(buffer, symbolTableOffset, indexTableOffset) ==
  Slice(buffer.data, 0, indexTableOffset - symbolTableOffset)

\* QvdFileReader._convertBitsToInt32: bits, least significant first
RECURSIVE ConvertBitsToInt32(_)
ConvertBitsToInt32(bits) ==
  IF bits = <<>> THEN 0 ELSE Head(bits) + 2 * ConvertBitsToInt32(Tail(bits))

\* A variant that takes the bytes of the record in the order of the file
BitMaskInFileOrder(bytes) ==
  Reverse(Concat([i \in 1..Len(bytes) |-> FixedBits(bytes[i], 8)]))

\* The bit mask of a record: the bytes reversed, each written as 8 binary
\* digits, the whole digit string reversed
BitMask(bytes) ==
  LET rev == Reverse(bytes)
  IN  Reverse(Concat([i \in 1..Len(rev) |-> FixedBits(rev[i], 8)]))

\* The symbol index of one field in a record's bit mask
FieldIndex(mask, field) ==
  LET bitOffset == ParseInt(field.BitOffset).v
      bitWidth  == ParseInt(field.BitWidth).v
      bias      == ParseInt(field.Bias).v
  IN  (IF bitWidth = 0 THEN 0
       ELSE ConvertBitsToInt32(Slice(mask, bitOffset, bitOffset + bitWidth))) + bias

\* The index region read by _parseIndexTable: Length + 1 bytes from the index
\* table offset, as far as the file reaches
IndexBuffer(buffer, symbolTableOffset, indexTableOffset, header) ==
  LET from   == indexTableOffset - symbolTableOffset
      length == ParseInt(header.Length)
  IN  IF length.k # "int" THEN <<>>
      ELSE Slice(buffer.data, from, from + length.v + 1)

\* The rows of _parseIndexTable for a record size > 0: one per start position
\* 0, recordSize, 2 * recordSize, ... below the length of the index buffer
IndexRowsOf(indexBuffer, recordSize, fields) ==
  LET n == (Len(indexBuffer) + recordSize - 1) \div recordSize
  IN  [r \in 1..n |->
         LET mask == BitMask(Slice(indexBuffer, (r - 1) * recordSize, r * recordSize))
         IN  [c \in 1..Len(fields) |-> FieldIndex(mask, fields[c])]]

\* A variant whose loop body runs once before the loop condition is tested
parseIndexTableAtLeastOnce(buffer, symbolTableOffset, indexTableOffset, header) ==
  LET recordSize  == ParseInt(header.RecordByteSize)
      indexBuffer == IndexBuffer(buffer, symbolTableOffset, indexTableOffset, header)
      fields      == FieldsOf(header)
  IN  IF recordSize.k = "int" /\ recordSize.v > 0 /\ indexBuffer # <<>>
      THEN [st |-> "ok", indexTable |-> IndexRowsOf(indexBuffer, recordSize.v, fields)]
      ELSE [st |-> "ok", indexTable |-> <<[c \in 1..Len(fields) |-> 0]>>]

\* QvdFileReader._parseIndexTable: "hang" when the pointer never advances
parseIndexTable(buffer, symbolTableOffset, indexTableOffset, header) ==
  LET recordSize  == ParseInt(header.RecordByteSize)
      indexBuffer == IndexBuffer(buffer, symbolTableOffset, indexTableOffset, header)
      fields      == FieldsOf(header)
  IN  IF indexBuffer = <<>> THEN [st |-> "ok", indexTable |-> <<>>]
      ELSE CASE recordSize.k = "int" /\ recordSize.v > 0 ->
                  [st |-> "ok", indexTable |-> IndexRowsOf(indexBuffer, recordSize.v, fields)]
             [] recordSize.k = "int" /\ recordSize.v = 0 -> [st |-> "hang", indexTable |-> <<>>]
             [] recordSize.k = "NaN" ->
                  [st |-> "ok",
                   indexTable |-> <<[c \in 1..Len(fields) |-> FieldIndex(<<>>, fields[c])]>>]

\* A variant of getRow's conversion that returns the primary value as it is
ConvertPrimaryUnchanged(value) == value

\* The conversion getRow applies to a primary value: a string that Number()
\* turns into a number is returned as that number
ConvertPrimary(value) ==
  IF IsString(value) /\ StringToNumber(value.s) # NaN
  THEN StringToNumber(value.s)
  ELSE value

\* this._symbolTable?.[fieldIndex][symbolIndex]: undefined outside the array
SymbolAt(symbolTable, fieldIndex, symbolIndex) ==
  IF symbolIndex >= 0 /\ symbolIndex < Len(symbolTable[fieldIndex])
  THEN [found |-> TRUE, symbol |-> symbolTable[fieldIndex][symbolIndex + 1]]
  ELSE [found |-> FALSE]

\* One cell of getRow
CellValue(symbolTable, fieldIndex, symbolIndex) ==
  LET at == SymbolAt(symbolTable, fieldIndex, symbolIndex)
  IN  IF at.found THEN ConvertPrimary(toPrimaryValue(at.symbol)) ELSE Undefined

\* getRow(index) of QvdFileReader.load
getRow(symbolTable, indexTable, index) ==
  [c \in 1..Len(indexTable[index]) |-> CellValue(symbolTable, c, indexTable[index][c])]

\* The data frame QvdFileReader.load returns
LoadedDataFrame(header, symbolTable, indexTable) ==
  [columns |-> [c \in 1..Len(FieldsOf(header)) |-> FieldsOf(header)[c].FieldName],
   data    |-> [r \in 1..Len(indexTable) |-> getRow(symbolTable, indexTable, r)]]

(***************************************************************************)
(* Inputs: the tables handed to QvdDataFrame.fromDict and the files found  *)
(* on disk.                                                                *)
(***************************************************************************)
\* Most rows of an enumerated table, most records of an enumerated file
MaxRows == 2

ColumnNames == <<"Key", "Value">>

\* 2147483648 and 3000000000: whole numbers above the int32 range
TwoPow31 == Num(FALSE, 32768, 0, 0)

ThreeBillion == Num(FALSE, 45776, 24064, 0)

TwoAndAHalf == Num(FALSE, 0, 2, 1)

\* The cells of the first column: whole numbers inside and outside the int32
\* range, a fraction, texts (empty, plain, "0" and "1", non-ASCII), null
Cells ==
  {IntNum(0), IntNum(1), IntNum(-1), IntNum(2147483647), TwoPow31, TwoAndAHalf,
   Str(<<>>), Str(<<97>>), Str(<<48>>), Str(<<49>>), Str(<<233>>), Null}

\* The cells of the first column of a table of several columns, and the cells of
\* its further columns
FewCells == {IntNum(0), IntNum(1), Str(<<97>>)}

OtherCells == {IntNum(7), Str(<<98>>)}

CellsOf(c, nc) == IF c > 1 THEN OtherCells ELSE IF nc = 1 THEN Cells ELSE FewCells

RECURSIVE RowsUpTo(_, _)
\* The first c cells of the rows of a table of nc columns
RowsUpTo(c, nc) ==
  IF c = 0 THEN {<<>>}
  ELSE {Append(row, x) : row \in RowsUpTo(c - 1, nc), x \in CellsOf(c, nc)}

\* A table of nr rows over the first nc column names
IsEnumeratedTable(frame, nc, nr) ==
  \E data \in [1..nr -> RowsUpTo(nc, nc)] :
    frame = [columns |-> SubSeq(ColumnNames, 1, nc), data |-> data]

\* A table of nr rows whose two columns bear the same name
IsRepeatedNameTable(frame, nr) ==
  \E data \in [1..nr -> RowsUpTo(2, 2)] :
    frame = [columns |-> <<ColumnNames[1], ColumnNames[1]>>, data |-> data]

\* The table of the writer's test, and a table of 17 rows whose two columns
\* need 5 bits each, so that a record spans two bytes
TestTable ==
  [columns |-> ColumnNames,
   data |-> [r \in 1..5 |-> <<IntNum(r), Str(<<64 + r>>)>>]]

WideTable ==
  [columns |-> ColumnNames,
   data |-> [r \in 1..17 |-> <<IntNum(r), IntNum(18 - r)>>]]

\* The same rows under one name for both columns
WideRepeatedTable == [WideTable EXCEPT !.columns = <<ColumnNames[1], ColumnNames[1]>>]

\* Symbols as they lie in a file: tag byte and payload
SymbolPool ==
  {<<1, 7, 0, 0, 0>>,
   <<1, 0, 0, 0, 0>>,
   <<2, 0, 0, 0, 0, 0, 0, 4, 64>>,
   <<2, 0, 0, 0, 192, 11, 90, 230, 65>>,
   <<4, 97, 0>>,
   <<4, 0>>,
   <<4, 49, 0>>,
   <<5, 1, 0, 0, 0, 0>>,
   <<5, 2, 0, 0, 0, 120, 0>>,
   <<6, 0, 0, 0, 0, 0, 0, 4, 64, 50, 46, 53, 0>>}

\* The symbols of a column of a file: one or two symbols of the pool
SymbolLists == {<<a>> : a \in SymbolPool} \cup {<<a, b>> : a, b \in SymbolPool}

\* The symbols of the second column of a two-column file
SecondList == <<<<4, 98, 0>>, <<1, 9, 0, 0, 0>>>>

\* The header of a file of n one-byte records whose columns have the symbols
\* given, one bit per column
FileHeader(lists, n) ==
  LET symbols == [c \in 1..Len(lists) |-> Concat(lists[c])]
  IN  buildObject(
        [Fields |->
           [c \in 1..Len(lists) |->
              [FieldName   |-> ColumnNames[c],
               BitOffset   |-> I(c - 1),
               BitWidth    |-> I(1),
               Bias        |-> I(0),
               NoOfSymbols |-> I(Len(lists[c])),
               Offset      |-> I(Len(Concat(SubSeq(symbols, 1, c - 1)))),
               Length      |-> I(Len(symbols[c]))]],
         NoOfRecords    |-> I(n),
         RecordByteSize |-> I(1),
         Offset         |-> I(Len(Concat(symbols))),
         Length         |-> I(n)])

\* A file with the symbols and the records given, followed by pad bytes
File(lists, records, pad) ==
  LET header == FileHeader(lists, Len(records))
  IN  [exists    |-> TRUE,
       delimited |-> TRUE,
       header    |-> header,
       headerLen |-> HeaderTextLength(header) + 1,
       data      |-> Concat([k \in 1..Len(lists) |-> Concat(lists[k])]) \o records \o pad]

\* A file of one or two columns and n records, with or without one padding byte
\* after the index table
IsFile(file, n) ==
  \E pad \in {<<>>, <<0>>} :
    \/ \E list \in SymbolLists, records \in [1..n -> 0..1] :
         file = File(<<list>>, records, pad)
    \/ \E x \in SymbolPool, records \in [1..n -> 0..3] :
         file = File(<<<<x>>, SecondList>>, records, pad)

\* The same file with another declared Length, BitOffset or BitWidth of the
\* field at position c, or another RecordByteSize
WithFieldLength(file, c, length) ==
  [file EXCEPT !.header.Fields[c].Length = NumberText(I(length))]

WithBits(file, c, bitOffset, bitWidth) ==
  [file EXCEPT !.header.Fields[c].BitOffset = NumberText(I(bitOffset)),
               !.header.Fields[c].BitWidth = NumberText(I(bitWidth))]

WithRecordByteSize(file, size) == [file EXCEPT !.header.RecordByteSize = NumberText(I(size))]

WithBias(file, c, bias) == [file EXCEPT !.header.Fields[c].Bias = NumberText(I(bias))]

\* A file of one column and one record of two bytes, whose field has the bit
\* offset, bit width and bias given
LayoutFile(record, bitOffset, bitWidth, bias) ==
  LET file == WithRecordByteSize(File(<<SecondList>>, record, <<>>), 2)
  IN  WithBias(WithBits([file EXCEPT !.header.NoOfRecords = NumberText(I(1))],
                        1, bitOffset, bitWidth), 1, bias)

\* Such files for bit slots inside the record: at its start, inside a byte,
\* across the two bytes, at its end, of no bit, of one bit and of several bits
LayoutFiles ==
  {LayoutFile(record, slot[1], slot[2], bias) :
     record \in {<<172, 53>>, <<255, 255>>, <<1, 2>>},
     slot \in {s \in {0, 3, 7, 12} \X {0, 1, 4, 9} : s[1] + s[2] <= 16},
     bias \in {0, 2, -1}}

\* A file of one record (and a second column when there are two lists)
SmallFile(lists) == File(lists, <<0>>, <<>>)

\* Files without the delimiter after the header, and a file that begins with it
UndelimitedFiles ==
  {[SmallFile(<<<<a>>>>) EXCEPT !.delimited = FALSE] : a \in {<<4, 97, 0>>, <<1, 7, 0, 0, 0>>}}

LeadingDelimiterFile == [SmallFile(<<<<<<4, 97, 0>>>>>>) EXCEPT !.headerLen = 3]

\* Type bytes that are none of 1, 2, 4, 5, 6
UnknownTags == {0, 3, 7, 255}

\* Files with such a type byte where a symbol begins: at the start of the first
\* column, after a symbol, at the start of the second column
UnknownTagFiles ==
  UNION {{SmallFile(<<<<<<t, 7, 0>>>>>>),
          SmallFile(<<<<<<4, 97, 0>>, <<t>>>>>>),
          SmallFile(<<<<<<1, 7, 0, 0, 0>>>>, <<<<t, 0>>, <<4, 98, 0>>>>>>)} : t \in UnknownTags}

\* Files whose first field declares a Length that ends inside its last symbol,
\* or reaches into the symbols of the second field, or beyond the symbol region;
\* and a file whose Int symbol is cut off by the end of the symbol region
OverrunFiles ==
  {WithFieldLength(SmallFile(<<<<<<4, 97, 0>>>>>>), 1, 2),
   WithFieldLength(SmallFile(<<<<<<1, 7, 0, 0, 0>>>>>>), 1, 4),
   WithFieldLength(SmallFile(<<<<<<6, 0, 0, 0, 0, 0, 0, 4, 64, 50, 46, 53, 0>>>>>>), 1, 12),
   WithFieldLength(SmallFile(<<<<<<4, 97, 0>>>>, SecondList>>), 1, 6),
   WithFieldLength(SmallFile(<<<<<<4, 97, 0>>>>>>), 1, 4),
   SmallFile(<<<<<<1, 7, 0>>>>>>),
   SmallFile(<<<<<<2, 0, 0, 0, 0>>>>>>)}

\* Files in which a field's bits reach beyond the record
BitOverflowFiles ==
  {WithBits(File(<<<<<<4, 97, 0>>>>, SecondList>>, <<128>>, <<>>), 2, 7, 2),
   WithBits(File(<<<<<<4, 97, 0>>>>, SecondList>>, <<0>>, <<>>), 2, 8, 1),
   WithBits(File(<<SecondList>>, <<1>>, <<>>), 1, 0, 9)}

\* A file whose string symbol has no zero byte before the end of the symbol
\* region, and files of RecordByteSize 0 with a non-empty index table
EndlessFiles ==
  {SmallFile(<<<<<<4, 97>>>>>>),
   SmallFile(<<<<<<5, 1, 0, 0, 0, 49>>>>>>),
   WithRecordByteSize(SmallFile(<<<<<<4, 97, 0>>>>>>), 0),
   WithRecordByteSize(File(<<<<<<1, 7, 0, 0, 0>>>>>>, <<0, 0>>, <<>>), 0)}

DamagedFiles ==
  UndelimitedFiles \cup {LeadingDelimiterFile} \cup UnknownTagFiles \cup OverrunFiles
    \cup BitOverflowFiles \cup EndlessFiles

NoFile == [exists |-> FALSE]

(***************************************************************************)
(* The state.                                                              *)
(***************************************************************************)
VARIABLES
  disk,     \* the file at the path
  df,       \* the data frame the program holds
  reader,   \* the QvdFileReader
  writer,   \* the QvdFileWriter
  script,   \* the calls the program still makes: "save" (toQvd), "load" (fromQvd)
  loaded,   \* the data frames the loads have returned, in order
  written,  \* the files the saves have written, in order
  view,     \* the call of tail made on df and the data frame it returned
  direct    \* a reader or writer whose stage methods the program calls itself:
            \* the object, the file at its path, the last call and whether it threw

vars == <<disk, df, reader, writer, script, loaded, written, view, direct>>

\* A slot of an object: null until a step assigns it
None == [set |-> FALSE]

Some(v) == [set |-> TRUE, v |-> v]

\* new QvdFileReader(path)
NewReader ==
  [pc |-> "idle", err |-> "", buffer |-> None, headerOffset |-> None, symbolTableOffset |-> None,
   indexTableOffset |-> None, header |-> None, symbolTable |-> None, indexTable |-> None]

\* new QvdFileWriter(path, df)
NewWriter(frame) ==
  [pc |-> "idle", err |-> "", df |-> frame, header |-> None, symbolBuffer |-> None,
   symbolTable |-> None, symbolTableMetadata |-> None, indexBuffer |-> None,
   indexTable |-> None, indexTableMetadata |-> None, recordByteSize |-> None]

NoFrame == [columns |-> <<>>, data |-> <<>>]

\* No object is handled directly
NoDirect == [kind |-> "none", reader |-> NewReader, writer |-> NewWriter(NoFrame), file |-> NoFile, last |-> None]

\* new QvdFileReader(path) for a path with a file of one or two columns, or
\* without file
DirectReaders ==
  {[NoDirect EXCEPT !.kind = "reader", !.file = file] :
     file \in {NoFile, SmallFile(<<SecondList>>), SmallFile(<<<<<<4, 97, 0>>>>, SecondList>>)}}

\* new QvdFileWriter(path, df) for a path without file and a table of two rows,
\* or of no row
DirectWriters ==
  {[NoDirect EXCEPT !.kind = "writer", !.writer = NewWriter(frame)] :
     frame \in {[columns |-> ColumnNames,
                 data |-> <<<<Str(<<97>>), IntNum(7)>>, <<IntNum(1), Str(<<98>>)>>>>],
                [columns |-> ColumnNames, data |-> <<>>]}}

\* Either a table is built with fromDict, written and read back, or a file on
\* disk is read, written again and read back, or the program calls the stage
\* methods of one object
Init ==
  /\ reader = NewReader
  /\ writer = NewWriter(NoFrame)
  /\ loaded = <<>>
  /\ written = <<>>
  /\ view = None
  /\ \/ /\ disk = NoFile
        /\ \/ \E nc \in 1..Len(ColumnNames), nr \in 0..MaxRows : IsEnumeratedTable(df, nc, nr)
           \/ \E nr \in 1..MaxRows : IsRepeatedNameTable(df, nr)
           \/ df \in {TestTable, WideTable, WideRepeatedTable}
        /\ script \in {<<"save", "load">>, <<"save", "load", "save", "load">>}
        /\ direct = NoDirect
     \/ /\ \/ \E n \in 1..MaxRows : IsFile(disk, n)
           \/ disk \in DamagedFiles \cup LayoutFiles
        /\ df = NoFrame
        /\ script = <<"load", "save", "load">>
        /\ direct = NoDirect
     \/ /\ disk = NoFile
        /\ df = NoFrame
        /\ script = <<"stages">>
        /\ direct \in DirectReaders \cup DirectWriters

Running(pc) == pc \notin {"idle", "done", "failed", "hung"}

Idle == ~Running(reader.pc) /\ ~Running(writer.pc)

LastOk == reader.pc # "failed" /\ reader.pc # "hung" /\ writer.pc # "failed"

(***************************************************************************)
(* QvdDataFrame.tail.                                                      *)
(***************************************************************************)
\* Array.prototype.slice(start): a negative start counts from the end
ArraySliceFrom(a, start) ==
  LET from == IF start < 0 THEN Max(Len(a) + start, 0) ELSE Min(start, Len(a))
  IN  SubSeq(a, from + 1, Len(a))

\* QvdDataFrame.tail(n): new QvdDataFrame(this._data.slice(-n), this._columns)
tail(frame, n) == [columns |-> frame.columns, data |-> ArraySliceFrom(frame.data, -n)]

\* Largest n handed to tail
MaxTail == 3

\* A call of tail on the data frame the program holds, once it has finished
\* its saves and loads
CallTail ==
  /\ Idle /\ script = <<>> /\ ~view.set
  /\ \E n \in 0..MaxTail : view' = Some([n |-> n, of |-> df, frame |-> tail(df, n)])
  /\ UNCHANGED <<disk, df, reader, writer, script, loaded, written, direct>>

(***************************************************************************)
(* The writer's steps: QvdDataFrame.toQvd -> QvdFileWriter.save.           *)
(***************************************************************************)
ToQvd ==
  /\ Idle /\ LastOk
  /\ script # <<>> /\ Head(script) = "save"
  /\ script' = Tail(script)
  /\ writer' = [NewWriter(df) EXCEPT !.pc = "buildSymbolTable"]
  /\ UNCHANGED <<disk, df, reader, loaded, written, view, direct>>

\* QvdFileWriter._buildSymbolTable on the writer object w
BuildSymbolTableOn(w) ==
  LET Store(built) ==
        [w EXCEPT
           !.symbolTable = Some(built.symbolTable),
           !.symbolTableMetadata = Some(built.symbolTableMetadata),
           !.symbolBuffer = Some(built.symbolBuffer),
           !.err = built.err,
           !.pc = IF built.ok THEN "buildIndexTable" ELSE "failed"]
  IN  Store(buildSymbolTable(w.df))

\* A variant of save that opens the file for writing before it builds the
\* symbol table: a failure leaves an empty file
BuildSymbolTableOnOpenFile ==
  /\ writer.pc = "buildSymbolTable"
  /\ writer' = BuildSymbolTableOn(writer)
  /\ disk' = IF writer'.pc # "failed" THEN disk
             ELSE [exists |-> TRUE, delimited |-> FALSE, header |-> <<>>, headerLen |-> 0,
                   data |-> <<>>]
  /\ UNCHANGED <<df, reader, script, loaded, written, view, direct>>

\* The first step of QvdFileWriter.save: _buildSymbolTable; when it throws, save
\* ends there
BuildSymbolTable ==
  /\ writer.pc = "buildSymbolTable"
  /\ writer' = BuildSymbolTableOn(writer)
  /\ UNCHANGED <<disk, df, reader, script, loaded, written, view, direct>>

\* this._symbolTable?.[columns.indexOf(column)] is undefined for some column
NoSymbolsOfSomeColumn(w) ==
  \/ ~w.symbolTable.set
  \/ \E c \in 1..Len(w.df.columns) :
       IndexOf(w.df.columns, w.df.columns[c]) + 1 > Len(w.symbolTable.v)

\* QvdFileWriter._buildIndexTable on the writer object w: the three slots are
\* reset first; the first row throws when the symbols of a column are missing
BuildIndexTableOn(w) ==
  IF Len(w.df.data) >= 1 /\ Len(w.df.columns) >= 1 /\ NoSymbolsOfSomeColumn(w)
  THEN [w EXCEPT
          !.indexTable = Some(<<>>),
          !.indexTableMetadata = Some(<<>>),
          !.indexBuffer = Some(<<>>),
          !.err = "TypeError",
          !.pc = "failed"]
  ELSE LET Store(built) ==
             [w EXCEPT
                !.df.data = built.data,
                !.indexTable = Some(built.indexTable),
                !.indexTableMetadata = Some(built.indexTableMetadata),
                !.indexBuffer = Some(built.indexBuffer),
                !.recordByteSize = Some(built.recordByteSize),
                !.pc = "buildHeader"]
       IN  Store(buildIndexTable(w.df, IF w.symbolTable.set THEN w.symbolTable.v ELSE <<>>))

BuildIndexTable ==
  /\ writer.pc = "buildIndexTable"
  /\ writer' = BuildIndexTableOn(writer)
  /\ df' = [df EXCEPT !.data = writer'.df.data]
  /\ UNCHANGED <<disk, reader, script, loaded, written, view, direct>>

\* The header _buildHeader builds while some slot is still null: the optional
\* chaining gives undefined, written as an empty element, and the sum of two
\* undefined is NaN
PartialHeader(w) ==
  buildObject(
    [Fields |->
       [c \in 1..Len(w.df.columns) |->
          [FieldName   |-> w.df.columns[c],
           BitOffset   |-> IF w.indexTableMetadata.set
                           THEN w.indexTableMetadata.v[c][1] ELSE Undefined,
           BitWidth    |-> IF w.indexTableMetadata.set
                           THEN w.indexTableMetadata.v[c][2] ELSE Undefined,
           Bias        |-> IF w.indexTableMetadata.set
                           THEN w.indexTableMetadata.v[c][3] ELSE Undefined,
           NoOfSymbols |-> IF w.symbolTable.set
                           THEN I(Len(w.symbolTable.v[c])) ELSE Undefined,
           Offset      |-> IF w.symbolTableMetadata.set
                           THEN I(w.symbolTableMetadata.v[c][1]) ELSE Undefined,
           Length      |-> IF w.symbolTableMetadata.set
                           THEN I(w.symbolTableMetadata.v[c][2]) ELSE Undefined]],
     NoOfRecords    |-> IF w.indexTable.set THEN I(Len(w.indexTable.v)) ELSE Undefined,
     RecordByteSize |-> IF w.recordByteSize.set THEN w.recordByteSize.v ELSE Undefined,
     Offset         |-> IF w.symbolTableMetadata.set
                        THEN LET last == w.symbolTableMetadata.v[Len(w.symbolTableMetadata.v)]
                             IN  I(last[1] + last[2])
                        ELSE LNaN,
     Length         |-> IF w.indexBuffer.set THEN I(Len(w.indexBuffer.v)) ELSE Undefined])

\* QvdFileWriter._buildHeader on the writer object w: an array that is set but
\* has no entry for a column makes the access to the entry throw
BuildHeaderOn(w) ==
  IF \/ w.indexTableMetadata.set /\ Len(w.indexTableMetadata.v) < Len(w.df.columns)
     \/ w.symbolTable.set /\ Len(w.symbolTable.v) < Len(w.df.columns)
     \/ w.symbolTableMetadata.set /\ Len(w.symbolTableMetadata.v) < Max(Len(w.df.columns), 1)
  THEN [w EXCEPT !.err = "TypeError", !.pc = "failed"]
  ELSE IF /\ w.symbolTable.set /\ w.symbolTableMetadata.set /\ w.indexTable.set
          /\ w.indexTableMetadata.set /\ w.indexBuffer.set /\ w.recordByteSize.set
  THEN [w EXCEPT
          !.header = Some(buildHeader(w.df, w.symbolTable.v, w.symbolTableMetadata.v,
                                      w.indexTable.v, w.indexTableMetadata.v, w.indexBuffer.v,
                                      w.recordByteSize.v)),
          !.pc = "writeData"]
  ELSE [w EXCEPT !.header = Some(PartialHeader(w)), !.pc = "writeData"]

BuildHeader ==
  /\ writer.pc = "buildHeader"
  /\ writer' = BuildHeaderOn(writer)
  /\ UNCHANGED <<disk, df, reader, script, loaded, written, view, direct>>

\* QvdFileWriter._writeData on the writer object w, file being the file at its
\* path: the three asserts, then the file is written
WriteDataOn(w, file) ==
  IF ~w.header.set \/ ~w.symbolBuffer.set \/ ~w.indexBuffer.set
  THEN [writer |-> [w EXCEPT !.err = "AssertionError", !.pc = "failed"], file |-> file]
  ELSE [writer |-> [w EXCEPT !.pc = "done"],
        file   |-> WrittenFile(w.header.v, w.symbolBuffer.v, w.indexBuffer.v)]

WriteData ==
  /\ writer.pc = "writeData"
  /\ LET out == WriteDataOn(writer, disk)
     IN  /\ writer' = out.writer
         /\ disk' = out.file
         /\ written' = IF out.writer.pc = "done" THEN Append(written, out.file) ELSE written
  /\ UNCHANGED <<df, reader, script, loaded, view, direct>>

(***************************************************************************)
(* The reader's steps: QvdDataFrame.fromQvd -> QvdFileReader.load.         *)
(***************************************************************************)
FromQvd ==
  /\ Idle /\ LastOk
  /\ script # <<>> /\ Head(script) = "load"
  /\ script' = Tail(script)
  /\ reader' = [NewReader EXCEPT !.pc = "readData"]
  /\ UNCHANGED <<disk, df, writer, loaded, written, view, direct>>

\* QvdFileReader._readData on the reader object r, file being the file at its
\* path: fs.promises.open fails when there is no file
ReadDataOn(r, file) ==
  IF file.exists
  THEN [r EXCEPT !.buffer = Some(file), !.pc = "parseHeader"]
  ELSE [r EXCEPT !.pc = "failed", !.err = "ENOENT"]

ReadData ==
  /\ reader.pc = "readData"
  /\ reader' = ReadDataOn(reader, disk)
  /\ UNCHANGED <<disk, df, writer, script, loaded, written, view, direct>>

\* The messages of the errors the reader throws
NotLoaded == "The QVD file has not been loaded in the proper order or has not been loaded at all."

NotDelimited == "The XML header section does not exist or is not properly delimited from the binary data."

\* QvdFileReader._parseHeader on the reader object r
ParseHeaderOn(r) ==
  IF ~r.buffer.set
  THEN [r EXCEPT !.pc = "failed", !.err = NotLoaded]
  ELSE IF HeaderDelimiterIndex(r.buffer.v) = 0
  THEN [r EXCEPT !.pc = "failed", !.err = NotDelimited]
  ELSE IF ~ParsedHeader(r.buffer.v).ok
  THEN [r EXCEPT !.pc = "failed", !.err = ParsedHeader(r.buffer.v).err]
  ELSE LET headerEndIndex == HeaderDelimiterIndex(r.buffer.v) + 3
           header == ParsedHeader(r.buffer.v).v
       IN  [r EXCEPT
              !.header = Some(header),
              !.headerOffset = Some(I(0)),
              !.symbolTableOffset = Some(I(headerEndIndex)),
              !.indexTableOffset = Some(LAdd(I(headerEndIndex), ParseInt(header.Offset))),
              !.pc = "parseSymbolTable"]

ParseHeader ==
  /\ reader.pc = "parseHeader"
  /\ reader' = ParseHeaderOn(reader)
  /\ UNCHANGED <<disk, df, writer, script, loaded, written, view, direct>>

\* !x for a reader slot holding null or a layout number
Unset(x) == ~x.set \/ ~LTruthy(x.v)

\* A variant that takes a reader without header as one without fields
ParseSymbolTableUnguarded(r) ==
  IF ~r.buffer.set \/ ~r.header.set
  THEN [r EXCEPT !.symbolTable = Some(<<>>), !.pc = "parseIndexTable"]
  ELSE LET symbolBuffer == SymbolBuffer(r.buffer.v, r.symbolTableOffset.v.v,
                                        r.indexTableOffset.v.v)
           After(parsed) ==
             CASE parsed.st = "ok" ->
                    [r EXCEPT !.symbolTable = Some(parsed.table), !.pc = "parseIndexTable"]
               [] parsed.st = "throw" -> [r EXCEPT !.pc = "failed", !.err = parsed.err]
               [] parsed.st = "hang" -> [r EXCEPT !.pc = "hung"]
       IN  After(MapFields(symbolBuffer, FieldsOf(r.header.v)))

\* QvdFileReader._parseSymbolTable on the reader object r
ParseSymbolTableOn(r) ==
  IF \/ ~r.buffer.set \/ ~r.header.set
     \/ Unset(r.symbolTableOffset) \/ Unset(r.indexTableOffset)
  THEN [r EXCEPT !.pc = "failed", !.err = NotLoaded]
  ELSE LET symbolBuffer == SymbolBuffer(r.buffer.v, r.symbolTableOffset.v.v,
                                        r.indexTableOffset.v.v)
           After(parsed) ==
             CASE parsed.st = "ok" ->
                    [r EXCEPT !.symbolTable = Some(parsed.table), !.pc = "parseIndexTable"]
               [] parsed.st = "throw" -> [r EXCEPT !.pc = "failed", !.err = parsed.err]
               [] parsed.st = "hang" -> [r EXCEPT !.pc = "hung"]
       IN  After(MapFields(symbolBuffer, FieldsOf(r.header.v)))

ParseSymbolTable ==
  /\ reader.pc = "parseSymbolTable"
  /\ reader' = ParseSymbolTableOn(reader)
  /\ UNCHANGED <<disk, df, writer, script, loaded, written, view, direct>>

\* QvdFileReader._parseIndexTable on the reader object r
ParseIndexTableOn(r) ==
  IF ~r.buffer.set \/ ~r.header.set \/ Unset(r.indexTableOffset)
  THEN [r EXCEPT !.pc = "failed", !.err = NotLoaded]
  ELSE LET parsed == parseIndexTable(r.buffer.v, r.symbolTableOffset.v.v,
                                     r.indexTableOffset.v.v, r.header.v)
       IN  [r EXCEPT
              !.indexTable = Some(parsed.indexTable),
              !.pc = IF parsed.st = "ok" THEN "assemble" ELSE "hung"]

ParseIndexTable ==
  /\ reader.pc = "parseIndexTable"
  /\ reader' = ParseIndexTableOn(reader)
  /\ UNCHANGED <<disk, df, writer, script, loaded, written, view, direct>>

\* The rest of QvdFileReader.load: the asserts, then the data frame is returned
Load ==
  /\ reader.pc = "assemble"
  /\ IF ~reader.header.set \/ ~reader.symbolTable.set \/ ~reader.indexTable.set
     THEN /\ reader' = [reader EXCEPT !.pc = "failed"]
          /\ UNCHANGED <<df, loaded>>
     ELSE LET frame == LoadedDataFrame(reader.header.v, reader.symbolTable.v,
                                       reader.indexTable.v)
          IN  /\ reader' = [reader EXCEPT !.pc = "done"]
              /\ df' = frame
              /\ loaded' = Append(loaded, frame)
  /\ UNCHANGED <<disk, writer, script, written, view, direct>>

(***************************************************************************)
(* Calls of the stage methods on an object, in any order.                  *)
(***************************************************************************)
\* The object after a call that gave the reader r: it waits for the next call
AfterReaderCall(stage, r) ==
  [direct EXCEPT !.reader = [r EXCEPT !.pc = "idle"],
                 !.last = Some([stage |-> stage, threw |-> r.pc = "failed"])]

AfterWriterCall(stage, w, file) ==
  [direct EXCEPT !.writer = [w EXCEPT !.pc = "idle"],
                 !.file = file,
                 !.last = Some([stage |-> stage, threw |-> w.pc = "failed"])]

CallReadData ==
  /\ script = <<"stages">> /\ direct.kind = "reader"
  /\ direct' = AfterReaderCall("readData", ReadDataOn(direct.reader, direct.file))
  /\ UNCHANGED <<disk, df, reader, writer, script, loaded, written, view>>

CallParseHeader ==
  /\ script = <<"stages">> /\ direct.kind = "reader"
  /\ direct' = AfterReaderCall("parseHeader", ParseHeaderOn(direct.reader))
  /\ UNCHANGED <<disk, df, reader, writer, script, loaded, written, view>>

CallParseSymbolTable ==
  /\ script = <<"stages">> /\ direct.kind = "reader"
  /\ direct' = AfterReaderCall("parseSymbolTable", ParseSymbolTableOn(direct.reader))
  /\ UNCHANGED <<disk, df, reader, writer, script, loaded, written, view>>

CallParseIndexTable ==
  /\ script = <<"stages">> /\ direct.kind = "reader"
  /\ direct' = AfterReaderCall("parseIndexTable", ParseIndexTableOn(direct.reader))
  /\ UNCHANGED <<disk, df, reader, writer, script, loaded, written, view>>

CallBuildSymbolTable ==
  /\ script = <<"stages">> /\ direct.kind = "writer"
  /\ direct' = AfterWriterCall("buildSymbolTable", BuildSymbolTableOn(direct.writer), direct.file)
  /\ UNCHANGED <<disk, df, reader, writer, script, loaded, written, view>>

CallBuildIndexTable ==
  /\ script = <<"stages">> /\ direct.kind = "writer"
  /\ direct' = AfterWriterCall("buildIndexTable", BuildIndexTableOn(direct.writer), direct.file)
  /\ UNCHANGED <<disk, df, reader, writer, script, loaded, written, view>>

CallBuildHeader ==
  /\ script = <<"stages">> /\ direct.kind = "writer"
  /\ direct' = AfterWriterCall("buildHeader", BuildHeaderOn(direct.writer), direct.file)
  /\ UNCHANGED <<disk, df, reader, writer, script, loaded, written, view>>

CallWriteData ==
  /\ script = <<"stages">> /\ direct.kind = "writer"
  /\ LET out == WriteDataOn(direct.writer, direct.file)
     IN  direct' = AfterWriterCall("writeData", out.writer, out.file)
  /\ UNCHANGED <<disk, df, reader, writer, script, loaded, written, view>>

Next ==
  \/ ToQvd
  \/ BuildSymbolTable
  \/ BuildIndexTable
  \/ BuildHeader
  \/ WriteData
  \/ FromQvd
  \/ ReadData
  \/ ParseHeader
  \/ ParseSymbolTable
  \/ ParseIndexTable
  \/ Load
  \/ CallTail
  \/ CallReadData
  \/ CallParseHeader
  \/ CallParseSymbolTable
  \/ CallParseIndexTable
  \/ CallBuildSymbolTable
  \/ CallBuildIndexTable
  \/ CallBuildHeader
  \/ CallWriteData

Spec == Init /\ [][Next]_vars

(***************************************************************************)
(* Properties.                                                             *)
(***************************************************************************)
\* The symbols the reader has parsed, the symbols the writer has built
SymbolsIn(slot) ==
  IF slot.set
  THEN {slot.v[c][i] : <<c, i>> \in {p \in (1..Len(slot.v)) \X (1..3) : p[2] <= Len(slot.v[p[1]])}}
  ELSE {}

HasString(sym) == sym.stringValue.t = "string"

HasInt(sym) == sym.intValue.t = "number"

HasDouble(sym) == sym.doubleValue.t = "number"

NoUndefined(frame) ==
  \A r \in 1..Len(frame.data) : \A c \in 1..Len(frame.data[r]) : frame.data[r][c] # Undefined

\* The reader has finished, or is assembling, the file the writer has just written
ReadingBack == script = <<>> /\ writer.pc = "done"

\* C1: a table T decoded from a file whose indices all point at symbols can be
\* written, and the file written decodes to a table equal to T.
C1_DecodeEncodeDecode ==
  (Len(loaded) >= 1 /\ NoUndefined(loaded[1])) =>
    /\ writer.pc # "failed"
    /\ reader.pc \notin {"failed", "hung"}
    /\ Len(loaded) = 2 => loaded[2] = loaded[1]

IsInt32OrText(x) ==
  \/ x.t = "string"
  \/ x.t = "number" /\ x.k = "fin" /\ x.half = 0
       /\ (x.hi < 32768 \/ (x.neg /\ x.hi = 32768 /\ x.lo = 0))

Distinct(names) == \A i, j \in 1..Len(names) : names[i] = names[j] => i = j

\* A table of at least one row, distinct column names and cells that are whole
\* int32 numbers or texts
Eligible(frame) ==
  /\ Len(frame.data) >= 1
  /\ Distinct(frame.columns)
  /\ \A r \in 1..Len(frame.data) :
       /\ Len(frame.data[r]) = Len(frame.columns)
       /\ \A c \in 1..Len(frame.columns) : IsInt32OrText(frame.data[r][c])

\* C2: a table built from a dictionary (at least one row, distinct column names,
\* cells whole int32 numbers or texts) is written without failure, and reading
\* the file back gives a table equal to it: same columns, same rows, every cell
\* equal in value and in type.
C2_DictRoundTrip ==
  Eligible(writer.df) =>
    /\ writer.pc # "failed"
    /\ ReadingBack => reader.pc \notin {"failed", "hung"}
    /\ ReadingBack /\ reader.pc = "done" => df = writer.df

\* The reader has returned a table: df is that table, reader.symbolTable and
\* reader.indexTable are what it was assembled from
Assembled == reader.pc = "done"

\* The cells of the assembled table whose index points at a symbol of the column
PointedCells ==
  {p \in (1..Len(reader.indexTable.v)) \X (1..Len(reader.symbolTable.v)) :
     /\ reader.indexTable.v[p[1]][p[2]] >= 0
     /\ reader.indexTable.v[p[1]][p[2]] < Len(reader.symbolTable.v[p[2]])}

PointedSymbol(p) == reader.symbolTable.v[p[2]][reader.indexTable.v[p[1]][p[2]] + 1]

CellOfSymbol(sym) ==
  IF HasString(sym)
  THEN IF StringToNumber(sym.stringValue.s) # NaN
       THEN StringToNumber(sym.stringValue.s)
       ELSE sym.stringValue
  ELSE IF HasInt(sym) THEN sym.intValue
  ELSE sym.doubleValue

C4_PrimaryValueRule ==
  \A sym \in SymbolsIn(reader.symbolTable) \cup SymbolsIn(writer.symbolTable) :
    /\ HasString(sym) => toPrimaryValue(sym) = sym.stringValue
    /\ ~HasString(sym) /\ HasInt(sym) => toPrimaryValue(sym) = sym.intValue
    /\ ~HasString(sym) /\ ~HasInt(sym) /\ HasDouble(sym) => toPrimaryValue(sym) = sym.doubleValue

\* The reader has assembled a table from symbols among which are a dual symbol
\* with the empty text and an Int symbol 0
C4_Witness ==
  /\ Assembled
  /\ \E sym \in SymbolsIn(reader.symbolTable) : HasInt(sym) /\ sym.stringValue = Str(<<>>)
  /\ \E sym \in SymbolsIn(reader.symbolTable) : ~HasString(sym) /\ sym.intValue = IntNum(0)

\* C5: for a table of at least one row and distinct column names, the index the
\* reader extracts from the record written for row r, at the bits
\* [BitOffset[c], BitOffset[c] + BitWidth[c]) of the header written, plus
\* Bias[c], is the symbol index the writer resolved for the cell (r, c).
C5_BitLayoutClosure ==
  ReadingBack /\ reader.indexTable.set /\ Len(writer.df.data) >= 1
     /\ Distinct(writer.df.columns) =>
    /\ Len(reader.indexTable.v) >= Len(writer.df.data)
    /\ \A r \in 1..Len(writer.df.data) : \A c \in 1..Len(writer.df.columns) :
         reader.indexTable.v[r][c] =
           ResolveIndex(writer.df, writer.symbolTable.v, writer.df.data[r], writer.df.columns[c])

\* A table whose records span two bytes has been written and its index table
\* read back; a row holds the index 16 in both columns
C5_Witness ==
  /\ ReadingBack /\ reader.indexTable.set
  /\ writer.recordByteSize.v = I(2)
  /\ \E r \in 1..Len(writer.df.data) :
       /\ reader.indexTable.v[r][1] = 16
       /\ reader.indexTable.v[r][2] = 16
       /\ ResolveIndex(writer.df, writer.symbolTable.v, writer.df.data[r], "Value") = 16

\* C6: among the symbols emitted for one column no two are structurally equal
\* (same tag, same numeric component, same text); 0 and "0" in one column give
\* two different symbols.
C6_NoEqualSymbolsInColumn ==
  ReadingBack /\ reader.symbolTable.set =>
    \A c \in 1..Len(reader.symbolTable.v) :
      \A i, j \in 1..Len(reader.symbolTable.v[c]) :
        reader.symbolTable.v[c][i] = reader.symbolTable.v[c][j] => i = j

\* The writer has built its symbol table and symbol buffer without failure
SymbolsBuilt == writer.pc \in {"buildIndexTable", "buildHeader", "writeData", "done"}

\* The bytes the writer emitted for column position c
EmittedRegion(c) ==
  Slice(writer.symbolBuffer.v, writer.symbolTableMetadata.v[c][1],
        writer.symbolTableMetadata.v[c][1] + writer.symbolTableMetadata.v[c][2])

\* The distinct values of column position c of the table being written
ValuesOf(c) == Unique(ColumnValues(writer.df, writer.df.columns[c]))

IsWhole(x) == x.t = "number" /\ x.k = "fin" /\ x.half = 0

IsInt32(x) == IsWhole(x) /\ (x.hi < 32768 \/ (x.neg /\ x.hi = 32768 /\ x.lo = 0))

AllCells(frame, P(_)) ==
  \A r \in 1..Len(frame.data) : \A c \in 1..Len(frame.data[r]) : P(frame.data[r][c])

AllOf(values, P(_)) == \A i \in 1..Len(values) : P(values[i])

DecimalText(x) == Utf8Encode(NumberToString(x)) \o <<0>>

\* C7: a whole number v of the int32 range (0 and 2147483647 included) is
\* emitted as the tag byte 5, the four bytes of v (little-endian), the decimal
\* text of v and a zero byte; writing such numbers does not fail.
C7_Int32AsDualInt ==
  AllCells(writer.df, IsInt32) /\ Distinct(writer.df.columns) =>
    /\ writer.pc # "failed"
    /\ SymbolsBuilt =>
         \A c \in 1..Len(writer.df.columns) :
           EmittedRegion(c) =
             Concat([i \in 1..Len(ValuesOf(c)) |->
                       <<5>> \o WriteInt32LE(ValuesOf(c)[i]) \o DecimalText(ValuesOf(c)[i])])

\* C8: a whole number outside the int32 range is emitted as a DualDouble (tag
\* byte 6, the eight bytes of the double, its decimal text, a zero byte), and
\* writing does not fail because of it.
C8_BeyondInt32AsDualDouble ==
  AllCells(writer.df, IsWhole) /\ ~AllCells(writer.df, IsInt32)
     /\ Distinct(writer.df.columns) =>
    /\ writer.pc # "failed"
    /\ SymbolsBuilt =>
         \A c \in 1..Len(writer.df.columns) :
           AllOf(ValuesOf(c), LAMBDA x : ~IsInt32(x)) =>
             EmittedRegion(c) =
               Concat([i \in 1..Len(ValuesOf(c)) |->
                         <<6>> \o WriteDoubleLE(ValuesOf(c)[i]) \o DecimalText(ValuesOf(c)[i])])

\* C9: every text cell, the empty text included, is emitted as the tag byte 4,
\* the UTF-8 bytes of the text and a zero byte; writing texts does not fail.
C9_TextAsString ==
  AllCells(writer.df, IsString) /\ Distinct(writer.df.columns) =>
    /\ writer.pc # "failed"
    /\ SymbolsBuilt =>
         \A c \in 1..Len(writer.df.columns) :
           EmittedRegion(c) =
             Concat([i \in 1..Len(ValuesOf(c)) |-> <<4>> \o Utf8Encode(ValuesOf(c)[i].s) \o <<0>>])

\* The header the reader parsed gives an index table of whole records:
\* Length = NoOfRecords * RecordByteSize with RecordByteSize > 0
WholeRecords(header) ==
  /\ ParseInt(header.RecordByteSize).k = "int"
  /\ ParseInt(header.NoOfRecords).k = "int"
  /\ ParseInt(header.Length).k = "int"
  /\ ParseInt(header.RecordByteSize).v > 0
  /\ ParseInt(header.Length).v = ParseInt(header.NoOfRecords).v * ParseInt(header.RecordByteSize).v

\* C10: the table decoded from a file whose header has
\* Length = NoOfRecords * RecordByteSize has exactly NoOfRecords rows, whether
\* or not one padding byte follows the index table.
C10_RowCountIsNoOfRecords ==
  Assembled /\ WholeRecords(reader.header.v) =>
    Len(df.data) = ParseInt(reader.header.v.NoOfRecords).v

\* The reader has left _parseHeader, _parseSymbolTable, _parseIndexTable
PastParseHeader == reader.pc \notin {"idle", "readData", "parseHeader"}

PastParseSymbolTable == PastParseHeader /\ reader.pc # "parseSymbolTable"

PastParseIndexTable == PastParseSymbolTable /\ reader.pc # "parseIndexTable"

\* C11: loading a buffer that holds no CR LF NUL fails in _parseHeader, which
\* detects the missing delimiter and raises the error of a header that is not
\* delimited; no data frame is returned.
C11_MissingDelimiterDetected ==
  reader.buffer.set /\ ~reader.buffer.v.delimited /\ PastParseHeader =>
    /\ reader.pc = "failed"
    /\ reader.err = NotDelimited
    /\ loaded = <<>>

EncodedSize(sym) ==
  (IF HasInt(sym) THEN 5 ELSE IF HasDouble(sym) THEN 9 ELSE 1)
    + (IF HasString(sym) THEN Len(Utf8Encode(sym.stringValue.s)) + 1 ELSE 0)

\* C13: when the reader produces a symbol table, the symbols of every field
\* take exactly the declared Length bytes from the declared Offset, inside the
\* symbol region; otherwise decoding fails instead of returning symbols.
C13_ExactlyDeclaredLength ==
  reader.symbolTable.set =>
    \A c \in 1..Len(reader.symbolTable.v) :
      LET field == FieldsOf(reader.header.v)[c]
      IN  /\ SumSeq([i \in 1..Len(reader.symbolTable.v[c]) |->
                       EncodedSize(reader.symbolTable.v[c][i])]) = ParseInt(field.Length).v
          /\ ParseInt(field.Offset).v + ParseInt(field.Length).v
               <= reader.indexTableOffset.v.v - reader.symbolTableOffset.v.v

\* C14: every index of a row the reader decodes, for a column that has symbols,
\* points at a symbol of the column; otherwise loading fails and no table is
\* returned.
C14_IndexWithinSymbols ==
  Assembled =>
    \A r \in 1..Len(reader.indexTable.v) : \A c \in 1..Len(reader.symbolTable.v) :
      Len(reader.symbolTable.v[c]) > 0 =>
        /\ reader.indexTable.v[r][c] >= 0
        /\ reader.indexTable.v[r][c] < Len(reader.symbolTable.v[c])

\* A field of the header declares bits beyond the record (of at least one byte)
BitsBeyondRecord(header) ==
  \E c \in 1..Len(FieldsOf(header)) :
    LET field == FieldsOf(header)[c]
    IN  /\ ParseInt(field.BitOffset).k = "int" /\ ParseInt(field.BitWidth).k = "int"
        /\ ParseInt(header.RecordByteSize).k = "int"
        /\ ParseInt(header.RecordByteSize).v > 0
        /\ ParseInt(field.BitOffset).v + ParseInt(field.BitWidth).v
             > ParseInt(header.RecordByteSize).v * 8

\* C15: loading a file in which some field has
\* BitOffset + BitWidth > RecordByteSize * 8 fails with an error; no index table
\* is built from fewer bits than declared and no table is returned.
C15_BitLayoutOverflowFails ==
  reader.header.set /\ BitsBeyondRecord(reader.header.v) /\ PastParseIndexTable =>
    reader.pc = "failed"

\* C16: QvdFileReader.load ends for every file, with a data frame or with an
\* error: the reader never enters a loop it does not leave.
C16_LoadTerminates == reader.pc # "hung"

\* C17: in every file written for a table of at least one column the symbol
\* areas of the fields follow each other in column order (Offset of the first
\* field 0, Offset of the next = Offset + Length of the one before), and
\* QvdTableHeader.Offset is the sum of the fields' Lengths, which is the number
\* of symbol bytes written.
C17_SymbolAreasContiguous ==
  writer.header.set /\ Len(writer.df.columns) >= 1 =>
    LET fields == writer.header.v.Fields
    IN  /\ ParseInt(fields[1].Offset) = I(0)
        /\ \A i \in 1..(Len(fields) - 1) :
             ParseInt(fields[i + 1].Offset).v
               = ParseInt(fields[i].Offset).v + ParseInt(fields[i].Length).v
        /\ ParseInt(writer.header.v.Offset).v
             = SumSeq([i \in 1..Len(fields) |-> ParseInt(fields[i].Length).v])
        /\ ParseInt(writer.header.v.Offset).v = Len(writer.symbolBuffer.v)
        /\ writer.pc = "done" =>
             /\ disk.header = writer.header.v
             /\ Len(disk.data) = Len(writer.symbolBuffer.v) + Len(writer.indexBuffer.v)

\* A table of two columns has been written whose second field begins after the
\* symbols of the first
C17_Witness ==
  /\ writer.pc = "done"
  /\ Len(disk.header.Fields) = 2
  /\ ParseInt(disk.header.Fields[1].Length).v > 0
  /\ ParseInt(disk.header.Fields[2].Offset).v > 0
  /\ ParseInt(disk.header.Fields[2].Length).v > 0

EmptyTable(frame) == Len(frame.data) = 0 /\ Len(frame.columns) >= 1

\* C18: a table of 0 rows and at least one column is written without failure
\* and with an empty index region, and reading the file back gives a data frame
\* of 0 rows and the same column names in the same order.
C18_EmptyTableRoundTrip ==
  EmptyTable(writer.df) =>
    /\ writer.pc # "failed"
    /\ writer.indexBuffer.set => writer.indexBuffer.v = <<>>
    /\ ReadingBack => reader.pc \notin {"failed", "hung"}
    /\ ReadingBack /\ Assembled => Len(df.data) = 0 /\ df.columns = writer.df.columns

\* A table of 0 rows and two columns has been written and read back
C18_Witness ==
  /\ ReadingBack /\ Assembled
  /\ EmptyTable(writer.df) /\ Len(writer.df.columns) = 2
  /\ df.columns = <<"Key", "Value">>

\* C19: tail(n), n >= 0, returns a data frame with the same columns whose rows
\* are the last min(n, r) rows of the r rows of the original, in their order.
C19_TailReturnsLastRows ==
  view.set =>
    LET r == Len(view.v.of.data)
        k == IF view.v.n < r THEN view.v.n ELSE r
    IN  /\ view.v.frame.columns = view.v.of.columns
        /\ view.v.frame.data = SubSeq(view.v.of.data, r - k + 1, r)

\* C20: writing a table, decoding the file and writing the decoded table again
\* gives the same symbol and index regions and the same header (the header of
\* the model holds none of the volatile fields CreateUtcTime, CreatorDoc).
C20_ReencodeIdempotent ==
  Len(written) = 2 =>
    /\ written[2].data = written[1].data
    /\ written[2].header = written[1].header
\* The table being written holds a null cell
HasNullCell(frame) ==
  \E r \in 1..Len(frame.data) : \E c \in 1..Len(frame.data[r]) : frame.data[r][c] = Null

\* The writer has left _buildSymbolTable
PastBuildSymbolTable == writer.pc \notin {"idle", "buildSymbolTable"}

C22_SaveKeepsInput ==
  [][Running(writer.pc) => df' = df /\ writer'.df = writer.df]_vars

\* A table of two rows and two columns has been written and the program still
\* holds it as it was handed to the writer
C22_Witness ==
  /\ writer.pc = "done" /\ script = <<"load">>
  /\ Len(df.columns) = 2 /\ Len(df.data) = 2
  /\ df = writer.df
  /\ df.data[1] # Reverse(df.data[1])

\* ceil(log2(n)) for n >= 1
CeilLog2(n) == CHOOSE k \in 0..16 : Pow2(k) >= n /\ (k = 0 \/ Pow2(k - 1) < n)

\* The symbol index of row r in column position c of the table being written
IndexOfCell(r, c) ==
  ResolveIndex(writer.df, writer.symbolTable.v, writer.df.data[r], writer.df.columns[c])

\* max over the rows of ceil(log2(idx + 1)), and 1 when that is 0
ExpectedBitWidth(c) ==
  LET widest == MaxOf([r \in 1..Len(writer.df.data) |-> CeilLog2(IndexOfCell(r, c) + 1)])
  IN  IF widest = 0 THEN 1 ELSE widest

\* C23: for every column of a table of at least one row, the BitWidth of the
\* header written is the maximum over the rows of ceil(log2(idx + 1)) of the
\* row's symbol index idx, and 1 for a column whose only index is 0.
C23_BitWidthIsWidestIndex ==
  writer.header.set /\ Len(writer.df.data) >= 1 =>
    \A c \in 1..Len(writer.df.columns) :
      /\ writer.indexTableMetadata.v[c][2] = I(ExpectedBitWidth(c))
      /\ ParseInt(writer.header.v.Fields[c].BitWidth) = I(ExpectedBitWidth(c))

\* The header of a table of 17 distinct values per column has been built: the
\* last row has the index 16 and the column five bits
C23_Witness ==
  /\ writer.header.set
  /\ Len(writer.df.data) = 17
  /\ IndexOfCell(17, 1) = 16
  /\ writer.header.v.Fields[1].BitWidth = <<53>>

\* C24: for every column position c of a table written, whatever its column
\* names, BitOffset[c] is the sum of the BitWidth of the positions before c and
\* Bias[c] is 0, in the writer's metadata and in the header written.
C24_BitOffsetIsSumOfWidths ==
  writer.header.set =>
    \A c \in 1..Len(writer.df.columns) :
      LET sum == LSum(SubSeq(writer.indexTableMetadata.v, 1, c - 1))
      IN  /\ writer.indexTableMetadata.v[c][1] = sum
          /\ writer.indexTableMetadata.v[c][3] = I(0)
          /\ writer.header.v.Fields[c].BitOffset = NumberText(sum)
          /\ writer.header.v.Fields[c].Bias = <<48>>

\* ceil(sum of the BitWidth of all fields / 8)
ExpectedRecordByteSize ==
  (SumSeq([c \in 1..Len(writer.df.columns) |-> writer.indexTableMetadata.v[c][2].v]) + 7) \div 8

\* C25: in every file written for a table of at least one row, every row is
\* packed into the same number of bytes, ceil(sum of the BitWidth / 8), which
\* is the RecordByteSize of the header, and the header's Length is
\* NoOfRecords * RecordByteSize, the length of the index region.
C25_RecordsOfOneSize ==
  writer.header.set /\ Len(writer.df.data) >= 1 =>
    /\ \A r \in 1..Len(writer.indexTable.v) :
         Len(RowBytes(writer.indexTable.v[r])) = ExpectedRecordByteSize
    /\ writer.header.v.RecordByteSize = NumberText(I(ExpectedRecordByteSize))
    /\ writer.header.v.NoOfRecords = NumberText(I(Len(writer.df.data)))
    /\ writer.header.v.Length = NumberText(I(Len(writer.df.data) * ExpectedRecordByteSize))
    /\ Len(writer.indexBuffer.v) = Len(writer.df.data) * ExpectedRecordByteSize

RECURSIVE LittleEndian(_)
\* The bytes read as one unsigned integer in little-endian byte order
LittleEndian(bytes) ==
  IF bytes = <<>> THEN 0 ELSE Head(bytes) + 256 * LittleEndian(Tail(bytes))

\* The index region the reader cut into records
ReadIndexBuffer ==
  IndexBuffer(reader.buffer.v, reader.symbolTableOffset.v.v, reader.indexTableOffset.v.v,
              reader.header.v)

\* C26: for every record of R bytes and every field with
\* BitOffset + BitWidth <= 8R, the index the reader derives is
\* (N div 2^BitOffset) mod 2^BitWidth + Bias, N being the record read as one
\* unsigned integer in little-endian byte order; for BitWidth 0 that is Bias.
C26_IndexIsBitSlotPlusBias ==
  reader.indexTable.set /\ reader.pc # "hung" =>
    LET R      == ParseInt(reader.header.v.RecordByteSize)
        fields == FieldsOf(reader.header.v)
    IN  R.k = "int" /\ R.v > 0 =>
          \A r \in 1..Len(reader.indexTable.v) : \A c \in 1..Len(fields) :
            LET record    == Slice(ReadIndexBuffer, (r - 1) * R.v, r * R.v)
                bitOffset == ParseInt(fields[c].BitOffset)
                bitWidth  == ParseInt(fields[c].BitWidth)
                bias      == ParseInt(fields[c].Bias)
            IN  /\ Len(record) = R.v
                /\ bitOffset.k = "int" /\ bitWidth.k = "int" /\ bias.k = "int"
                /\ bitOffset.v >= 0 /\ bitWidth.v >= 0
                /\ bitOffset.v + bitWidth.v <= 8 * R.v
                => /\ reader.indexTable.v[r][c] =
                        ((LittleEndian(record) \div Pow2(bitOffset.v)) % Pow2(bitWidth.v)) + bias.v
                   /\ bitWidth.v = 0 => reader.indexTable.v[r][c] = bias.v

\* The index table of a file has been read whose field takes four bits across
\* the two bytes of the record and has the bias 2: 172 + 256 * 53 = 13740,
\* 13740 div 128 = 107, 107 mod 16 = 11, and the index is 13
C26_Witness ==
  /\ reader.indexTable.set
  /\ reader.buffer.v = LayoutFile(<<172, 53>>, 7, 4, 2)
  /\ reader.indexTable.v = <<<<13>>>>

\* The distinct values at position c of the rows, in order of first occurrence
DistinctAt(c) == Unique([r \in 1..Len(writer.df.data) |-> writer.df.data[r][c]])

\* The symbol is the one of the value v: a number in its integer or double slot
\* (with a text beside it), a text in its string slot alone
Carries(sym, v) ==
  IF IsNumber(v)
  THEN (sym.intValue = v /\ sym.doubleValue = Null) \/ (sym.doubleValue = v /\ sym.intValue = Null)
  ELSE sym.stringValue = v /\ sym.intValue = Null /\ sym.doubleValue = Null

\* C27: for every column position c of a table written, the symbols built for c
\* are those of the distinct values at position c of the rows, in order of
\* first occurrence, and NoOfSymbols[c] is the number of those values.
C27_SymbolsAreDistinctValues ==
  SymbolsBuilt =>
    \A c \in 1..Len(writer.df.columns) :
      /\ Len(writer.symbolTable.v[c]) = Len(DistinctAt(c))
      /\ \A i \in 1..Len(DistinctAt(c)) :
           i <= Len(writer.symbolTable.v[c]) /\ Carries(writer.symbolTable.v[c][i], DistinctAt(c)[i])
      /\ writer.header.set =>
           writer.header.v.Fields[c].NoOfSymbols = NumberText(I(Len(DistinctAt(c))))

\* The text is a non-negative decimal integer: one or more digits, nothing else
IsDecimalInteger(text) == text # <<>> /\ \A i \in 1..Len(text) : IsDigit(text[i])

\* C28: in every header the writer builds, for a table of 0 rows too,
\* RecordByteSize and the BitOffset and BitWidth of every field are
\* non-negative decimal integers, and RecordByteSize is greater than 0 when
\* NoOfRecords is.
C28_LayoutNumbersAreDecimal ==
  writer.header.set =>
    /\ IsDecimalInteger(writer.header.v.RecordByteSize)
    /\ \A c \in 1..Len(writer.header.v.Fields) :
         /\ IsDecimalInteger(writer.header.v.Fields[c].BitOffset)
         /\ IsDecimalInteger(writer.header.v.Fields[c].BitWidth)
    /\ ParseInt(writer.header.v.NoOfRecords).v > 0 => ParseInt(writer.header.v.RecordByteSize).v > 0

\* C29: a save that fails because a cell cannot be encoded (null, the empty
\* text, a whole number outside the int32 range) fails in _buildSymbolTable,
\* before _writeData opens the file: no step of a save but the one that
\* completes it changes the file at the path.
C29_FailedSaveLeavesFile ==
  /\ [](writer.pc = "failed" =>
          /\ writer.err \in {NoValue, OutOfRange}
          /\ ~writer.indexBuffer.set /\ ~writer.header.set)
  /\ [][writer'.pc # "done" => disk' = disk]_vars

\* The save of a table read from a file has failed on a whole number outside
\* the int32 range, and the file is the one that was read
C29_Witness ==
  /\ writer.pc = "failed" /\ writer.err = OutOfRange
  /\ disk.exists /\ reader.buffer.set /\ disk = reader.buffer.v
  /\ \E r \in 1..Len(writer.df.data) : writer.df.data[r][1] = ThreeBillion

\* _parseHeader has completed on the reader object: header and offsets are set
HeaderParsed(r) == r.header.set /\ r.symbolTableOffset.set /\ r.indexTableOffset.set

\* The step is a call of the stage on the object handled directly
Called(stage) == direct' # direct /\ direct'.last.set /\ direct'.last.v.stage = stage

\* The call threw and left _header, _symbolTable and _indexTable as they were
ThrewAndLeftSlots ==
  /\ direct'.last.v.threw
  /\ direct'.reader.header = direct.reader.header
  /\ direct'.reader.symbolTable = direct.reader.symbolTable
  /\ direct'.reader.indexTable = direct.reader.indexTable

AllBuilt(w) == w.header.set /\ w.symbolBuffer.set /\ w.indexBuffer.set

\* C30: the stages take effect in pipeline order only.  Called on a reader
\* without buffer, _parseHeader throws; called on a reader on which
\* _parseHeader has not completed, _parseSymbolTable and _parseIndexTable throw;
\* such a call leaves _header, _symbolTable and _indexTable as they were.
\* _writeData throws and leaves the file alone unless header, symbol buffer and
\* index buffer are all set.  So a slot is set only after the stages before it.
C30_StagesInPipelineOrder ==
  /\ [][/\ Called("parseHeader") /\ ~direct.reader.buffer.set => ThrewAndLeftSlots
        /\ Called("parseSymbolTable") /\ ~HeaderParsed(direct.reader) => ThrewAndLeftSlots
        /\ Called("parseIndexTable") /\ ~HeaderParsed(direct.reader) => ThrewAndLeftSlots
        /\ Called("writeData") /\ ~AllBuilt(direct.writer) =>
             direct'.last.v.threw /\ direct'.file = direct.file]_vars
  /\ [](/\ direct.reader.header.set => direct.reader.buffer.set
        /\ direct.reader.symbolTable.set => HeaderParsed(direct.reader)
        /\ direct.reader.indexTable.set => HeaderParsed(direct.reader)
        /\ direct.file # NoFile /\ direct.kind = "writer" => AllBuilt(direct.writer))

\* _parseSymbolTable has been called on a reader that holds the buffer of a
\* file but no header, and has thrown
C30_Witness ==
  /\ direct.kind = "reader"
  /\ direct.last = Some([stage |-> "parseSymbolTable", threw |-> TRUE])
  /\ direct.reader.buffer.set /\ ~direct.reader.header.set
  /\ direct.reader.err = NotLoaded

====
